---- MODULE Spec2Model ----
(***************************************************************************)
(* Verification model of the world-generation core of overworld:          *)
(* overworld/world/plate_tectonics.py, world_generator.py, world.py,      *)
(* climate_system.py, tile.py, biome.py and utils/noise_utils.py.         *)
(*                                                                         *)
(* Units.  Reals of the source are scaled integers:                       *)
(*   altitude, humidity, temperature, noise : hundredths (0.35 -> 35)     *)
(*   hostility, fertility_index             : hundredths (10.0 -> 1000)   *)
(*   resource quantities                    : hundredths (100.0 -> 10000) *)
(*   random.random() draws, activity_level  : thousandths (1.0 -> 1000)   *)
(*   velocities                             : thousandths of cm/year      *)
(*   magnitudes                             : thousandths                 *)
(*   angles                                 : degrees                     *)
(*   latitudes, cloud cover                 : thousandths                 *)
(*   climate temperatures                   : thousandths of a degree     *)
(*   precipitation and water-cycle amounts  : hundredths of a mm          *)
(*   percentages of get_statistics          : hundredths of a percent     *)
(***************************************************************************)
EXTENDS Integers, Sequences, FiniteSets, TLC

VARIABLES
    width, height,       \* world_width / world_height of the system
    seed,                \* WorldGenerator.seed
    island_mode,         \* the island_mode argument of generate_full_world
    num_rivers,          \* the num_rivers argument of generate_full_world
    altitude_map,        \* WorldGenerator.altitude_map: (x,y) -> altitude
    humidity_map,        \* WorldGenerator.humidity_map
    temperature_map,     \* WorldGenerator.temperature_map
    tiles,               \* the Tile grid: (x,y) -> Tile, also the dict handed to simulate
    river,               \* the locals of generate_rivers: loop counters and the walk
    rivers,              \* the river paths committed so far, with their start altitude
    pc,                  \* how far generate_full_world has got
    plates,              \* PlateTectonicsSystem.plates: plate_id -> TectonicPlate
    plate_map,           \* PlateTectonicsSystem.plate_map: (x,y) -> plate_id
    boundaries,          \* PlateTectonicsSystem.boundaries: list of PlateBoundary
    geological_events,   \* PlateTectonicsSystem.geological_events: the event log
    returned,            \* the list returned by the last simulate_geological_events
    returned_from,       \* for each returned event, the index of its boundary
    last,                \* the last call made on the tectonics system: [op, arg],
                         \* with the seeds it drew when it is generate_plates
    generations,         \* number of generate_plates calls made so far
    cls,                 \* a call of BiomeClassifier.classify: arguments and result
    btype,               \* a call of _determine_boundary_type: the draws of the two
                         \* plates and the result
    first_run,           \* the outputs of a completed earlier run, or "none"
    query,               \* the last query made on the World: arguments and result
    current_month,       \* ClimateSystem.current_month
    current_season,      \* ClimateSystem.current_season
    weather_patterns,    \* ClimateSystem.weather_patterns: (x,y) -> WeatherPattern
    water_cycles,        \* ClimateSystem.water_cycles: (x,y) -> WaterCycle
    climate_call         \* the last call made on the climate system, with the dict
                         \* and the season of the last calculate_weather_patterns
                         \* and the number of advance_season calls so far, modulo 12

worldVars == <<seed, island_mode, num_rivers, altitude_map, humidity_map,
               temperature_map, river, rivers, pc>>
tectVars == <<plates, plate_map, boundaries, geological_events, returned,
              returned_from, last, generations>>
climVars == <<current_month, current_season, weather_patterns, water_cycles,
              climate_call>>
auxVars == <<cls, btype, first_run, query, climVars>>
vars == <<width, height, tiles, worldVars, tectVars, auxVars>>

(***************************************************************************)
(* Bounds of the model                                                     *)
(***************************************************************************)
MaxEvents == 2           \* simulate is not called once the log holds this many events
MaxGenerations == 2      \* generate_plates is called at most this many times

\* the years passed to simulate_geological_events
Years == {0, 1}

\* grid sizes the systems are constructed with
Dims == {<<3, 3>>}
\* values of random.random() that are drawn (thousandths, in [0,1))
UnitDraws == {0, 999}
\* the unit draws behind random.uniform (magnitudes)
UniformDraws == {500}
ChoiceDraws == {0}         \* draws of random.choice, thousandths

\* per-plate draws of generate_plates: r = random.random() for the type,
\* speed = random.uniform(2,10), direction = random.uniform(0,2*pi) in degrees,
\* age = random.randint(50,200)
OceanicEast     == [r |-> 0,   speed |-> 10, direction |-> 0,   age |-> 50]
OceanicWest     == [r |-> 0,   speed |-> 10, direction |-> 180, age |-> 200]
OceanicSlowEast == [r |-> 699, speed |-> 2,  direction |-> 0,   age |-> 200]
ContinentalEast == [r |-> 700, speed |-> 10, direction |-> 0,   age |-> 50]
ContinentalWest == [r |-> 999, speed |-> 10, direction |-> 180, age |-> 200]

\* the draws of one generate_plates call: the seed (x, y) of every plate, from
\* random.randint, and its per-plate draws; num_plates is their number
PlateInputs ==
    { [seeds |-> << >>, draws |-> << >>],
      [seeds |-> << <<1, 1>> >>, draws |-> <<ContinentalEast>>],
      [seeds |-> << <<0, 0>>, <<0, 2>> >>, draws |-> <<OceanicEast, OceanicWest>>],
      [seeds |-> << <<0, 0>>, <<2, 0>> >>, draws |-> <<OceanicEast, OceanicSlowEast>>],
      [seeds |-> << <<0, 0>>, <<1, 1>>, <<2, 2>> >>,
       draws |-> <<OceanicEast, ContinentalWest, ContinentalEast>>] }

(***************************************************************************)
(* Helpers                                                                 *)
(***************************************************************************)
Min2(a, b) == IF a < b THEN a ELSE b
Abs(a) == IF a < 0 THEN 0 - a ELSE a
EmptyMap == [c \in {} |-> 0]
Cells == (0..(width - 1)) \X (0..(height - 1))

\* floor of the square root, by bisection on [lo, hi)
RECURSIVE ISqrtIn(_, _, _)
ISqrtIn(n, lo, hi) ==
    IF hi - lo <= 1 THEN lo
    ELSE LET mid == (lo + hi) \div 2
         IN IF mid * mid <= n THEN ISqrtIn(n, mid, hi) ELSE ISqrtIn(n, lo, mid)
ISqrt(n) == ISqrtIn(n, 0, 46341)

(***************************************************************************)
(* plate_tectonics.py                                                      *)
(***************************************************************************)
\* cos and sin of the headings used, in thousandths
Headings == {-160, -140, -120, -100, -90, -80, -60, -40, -20,
             0, 20, 40, 60, 80, 90, 100, 120, 140, 160, 180}
CosMilli(d) ==
    LET a == Abs(d)
    IN CASE a = 0 -> 1000 [] a = 20 -> 940 [] a = 40 -> 766 [] a = 60 -> 500
         [] a = 80 -> 174 [] a = 90 -> 0 [] a = 100 -> -174 [] a = 120 -> -500
         [] a = 140 -> -766 [] a = 160 -> -940 [] a = 180 -> -1000
SinMilli(d) ==
    LET a == Abs(d)
        s == CASE a = 0 -> 0 [] a = 20 -> 342 [] a = 40 -> 643 [] a = 60 -> 866
               [] a = 80 -> 985 [] a = 90 -> 1000 [] a = 100 -> 985 [] a = 120 -> 866
               [] a = 140 -> 643 [] a = 160 -> 342 [] a = 180 -> 0
    IN IF d < 0 THEN 0 - s ELSE s
\* random.uniform(0, 2*pi) lies in [0, 360]; the heading math.atan2 returns
\* for it lies in (-180, 180]
NormHeading(d) == IF d > 180 THEN d - 360 ELSE d

\* TectonicPlate.get_direction: math.atan2(velocity_y, velocity_x), in degrees
get_direction(p) ==
    CHOOSE d \in Headings :
        /\ p.velocity_x * SinMilli(d) = p.velocity_y * CosMilli(d)
        /\ p.velocity_x * CosMilli(d) + p.velocity_y * SinMilli(d) > 0

\* squared relative speed of two plates (thousandths of cm/year, squared)
RelSpeed2(p1, p2) ==
    (p1.velocity_x - p2.velocity_x) * (p1.velocity_x - p2.velocity_x)
  + (p1.velocity_y - p2.velocity_y) * (p1.velocity_y - p2.velocity_y)

\* variant: the speed test and the heading test are not nested
_determine_boundary_type_Flat(plate1, plate2) ==
    LET rel2 == RelSpeed2(plate1, plate2)
        angle_diff == Abs(get_direction(plate1) - get_direction(plate2))
    IN IF (angle_diff < 30 \/ angle_diff > 150) /\ rel2 < 3000 * 3000
       THEN "transform"
       ELSE IF angle_diff < 90 THEN "divergent" ELSE "transform"
_determine_boundary_type(plate1, plate2) ==
    LET rel2 == RelSpeed2(plate1, plate2)
        angle_diff == Abs(get_direction(plate1) - get_direction(plate2))
    IN IF angle_diff < 30 \/ angle_diff > 150
       THEN IF rel2 < 3000 * 3000
            THEN "transform"
            ELSE IF angle_diff < 90 THEN "divergent" ELSE "convergent"
       ELSE "transform"

\* variant: the activity is not capped at 1.0
_calculate_boundary_activity_Uncapped(plate1, plate2, boundary_type) ==
    LET rel_speed == ISqrt(RelSpeed2(plate1, plate2))
        base_activity == CASE boundary_type = "convergent" -> 8
                           [] boundary_type = "divergent" -> 6
                           [] OTHER -> 7
    IN (base_activity * rel_speed) \div 100
\* activity = base_activity * (rel_speed / 10.0), capped by min(1.0, activity)
_calculate_boundary_activity(plate1, plate2, boundary_type) ==
    LET rel_speed == ISqrt(RelSpeed2(plate1, plate2))
        base_activity == CASE boundary_type = "convergent" -> 8
                           [] boundary_type = "divergent" -> 6
                           [] OTHER -> 7
    IN Min2(1000, (base_activity * rel_speed) \div 100)

\* variant: the Y distance is not wrapped
PlateDist2_PlainY(c, s) ==
    LET dx == Min2(Abs(c[1] - s[1]), width - Abs(c[1] - s[1]))
        dy == Abs(c[2] - s[2])
    IN dx * dx + dy * dy
\* toroidal squared distance of generate_plates (wrap-around on both axes)
PlateDist2(c, s) ==
    LET dx == Min2(Abs(c[1] - s[1]), width - Abs(c[1] - s[1]))
        dy == Min2(Abs(c[2] - s[2]), height - Abs(c[2] - s[2]))
    IN dx * dx + dy * dy

\* the plate id the Voronoi loop leaves in closest_plate: the first seed at
\* the minimal distance; 0 when there is no seed
ClosestPlate(c, seeds) ==
    IF Len(seeds) = 0 THEN 0
    ELSE CHOOSE i \in 0..(Len(seeds) - 1) :
            /\ \A j \in 0..(Len(seeds) - 1) :
                   PlateDist2(c, seeds[i + 1]) <= PlateDist2(c, seeds[j + 1])
            /\ \A j \in 0..(i - 1) :
                   PlateDist2(c, seeds[j + 1]) > PlateDist2(c, seeds[i + 1])

NewPlate(i, d, pmap) ==
    [ plate_id   |-> i,
      plate_type |-> IF d.r < 700 THEN "oceanic" ELSE "continental",
      tiles      |-> {c \in DOMAIN pmap : pmap[c] = i},
      velocity_x |-> d.speed * CosMilli(NormHeading(d.direction)),
      velocity_y |-> d.speed * SinMilli(NormHeading(d.direction)),
      age        |-> d.age ]

\* the plates dict after the creation loop: entries 0..n-1 are replaced,
\* every other entry of the dict is left as it was
PlatesAfter(old, n, draws, pmap) ==
    [i \in (DOMAIN old) \cup (0..(n - 1)) |->
        IF i < n THEN NewPlate(i, draws[i + 1], pmap) ELSE old[i]]

\* generate_plates(num_plates) with the draws in: num_plates = Len(in.seeds)
generate_plates(in) ==
    LET n == Len(in.seeds)
        pmap == [c \in Cells |-> ClosestPlate(c, in.seeds)]
    IN /\ generations < MaxGenerations
       /\ generations' = generations + 1
       /\ plate_map' = pmap
       /\ plates' = PlatesAfter(plates, n, in.draws, pmap)
       /\ last' = [op |-> "generate_plates", arg |-> n, seeds |-> in.seeds]
       /\ UNCHANGED <<width, height, tiles, boundaries, geological_events,
                      returned, returned_from, worldVars, auxVars>>

\* the offsets detect_boundaries scans, in its order
Dirs4 == << <<-1, 0>>, <<1, 0>>, <<0, -1>>, <<0, 1>> >>
\* variant: the X coordinate of the neighbour is not wrapped
BoundaryNeighbor_NoWrapX(c, k) ==
    << c[1] + Dirs4[k][1], (c[2] + Dirs4[k][2]) % height >>
BoundaryNeighbor(c, k) ==
    << (c[1] + Dirs4[k][1]) % width, (c[2] + Dirs4[k][2]) % height >>

\* the (tile, offset) pairs for which detect_boundaries appends the tile:
\* both cells are in plate_map and their plates differ
BoundaryHits ==
    { h \in Cells \X (1..4) :
        /\ h[1] \in DOMAIN plate_map
        /\ BoundaryNeighbor(h[1], h[2]) \in DOMAIN plate_map
        /\ plate_map[BoundaryNeighbor(h[1], h[2])] # plate_map[h[1]] }
\* key = tuple(sorted([plate_id, neighbor_plate]))
BoundaryKey(h) ==
    LET a == plate_map[h[1]]
        b == plate_map[BoundaryNeighbor(h[1], h[2])]
    IN IF a < b THEN <<a, b>> ELSE <<b, a>>
\* position of a hit in the scan: x outer, y inner, then the offsets
HitPos(h) == (h[1][1] * height + h[1][2]) * 4 + h[2]
\* boundary_tiles is a dict: its keys are iterated in insertion order
RECURSIVE KeysInOrder(_)
KeysInOrder(hits) ==
    IF hits = {} THEN << >>
    ELSE LET f == CHOOSE h \in hits : \A g \in hits : HitPos(h) <= HitPos(g)
             k == BoundaryKey(f)
         IN <<k>> \o KeysInOrder({g \in hits : BoundaryKey(g) # k})

NewBoundary(key) ==
    LET plate1 == plates[key[1]]
        plate2 == plates[key[2]]
        boundary_type == _determine_boundary_type(plate1, plate2)
    IN [ plate1_id      |-> key[1],
         plate2_id      |-> key[2],
         boundary_type  |-> boundary_type,
         tiles          |-> {h[1] : h \in {g \in BoundaryHits : BoundaryKey(g) = key}},
         activity_level |-> _calculate_boundary_activity(plate1, plate2, boundary_type) ]

detect_boundaries ==
    LET keys == KeysInOrder(BoundaryHits)
    IN /\ \A i \in 1..Len(keys) : keys[i][1] \in DOMAIN plates /\ keys[i][2] \in DOMAIN plates
       /\ boundaries' = [i \in 1..Len(keys) |-> NewBoundary(keys[i])]
       /\ last' = [op |-> "detect_boundaries", arg |-> 0]
       /\ UNCHANGED <<width, height, tiles, plates, plate_map, geological_events,
                      returned, returned_from, generations, worldVars, auxVars>>

\* random.uniform(lo, hi) for a unit draw u (all in thousandths)
Uniform(lo, hi, u) == lo + ((hi - lo) * u) \div 1000

\* variant: the tile is raised by twice the amount
RaiseAltitude_Double(tl, c, d) ==
    IF c \in DOMAIN tl THEN [tl EXCEPT ![c].altitude = Min2(100, @ + 2 * d)] ELSE tl
\* variant: the raised altitude is not capped
RaiseAltitude_NoCap(tl, c, d) ==
    IF c \in DOMAIN tl THEN [tl EXCEPT ![c].altitude = @ + d] ELSE tl
\* world_tiles[(x, y)].altitude = min(1.0, altitude + d) when the tile is in the dict
RaiseAltitude(tl, c, d) ==
    IF c \in DOMAIN tl THEN [tl EXCEPT ![c].altitude = Min2(100, @ + d)] ELSE tl

GeologicalEvent(event_type, c, year, magnitude, description) ==
    [ event_type |-> event_type, x |-> c[1], y |-> c[2], year |-> year,
      magnitude |-> magnitude, description |-> description ]

\* the body of the boundary loop once a tile c is chosen: r is the
\* random.random() draw of the branch, u the draw behind random.uniform
BoundaryEvent(b, c, r, u, year, tl) ==
    IF b.boundary_type = "convergent"
    THEN LET plate1 == plates[b.plate1_id]
             plate2 == plates[b.plate2_id]
         IN IF plate1.plate_type = "oceanic" /\ plate2.plate_type = "oceanic"
            THEN IF r < 300
                 THEN [ event |-> GeologicalEvent("volcano", c, year, Uniform(5000, 8500, u),
                                                  "Erupcio volcanica submarina"),
                        tiles |-> RaiseAltitude(tl, c, 15) ]
                 ELSE [ event |-> GeologicalEvent("earthquake", c, year, Uniform(5000, 8500, u),
                                                  "Terratremol de magnitud"),
                        tiles |-> tl ]
            ELSE IF plate1.plate_type = "continental" /\ plate2.plate_type = "continental"
            THEN [ event |-> GeologicalEvent("mountain_building", c, year, Uniform(4000, 7000, u),
                                             "Formacio de muntanyes per collisio"),
                   tiles |-> RaiseAltitude(tl, c, 10) ]
            ELSE IF r < 400
                 THEN [ event |-> GeologicalEvent("volcano", c, year, Uniform(6000, 9000, u),
                                                  "Erupcio volcanica en zona de subduccio"),
                        tiles |-> RaiseAltitude(tl, c, 12) ]
                 ELSE [ event |-> GeologicalEvent("earthquake", c, year, Uniform(6000, 9000, u),
                                                  "Terratremol de subduccio, magnitud"),
                        tiles |-> tl ]
    ELSE IF b.boundary_type = "divergent"
    THEN IF r < 700
         THEN [ event |-> GeologicalEvent("earthquake", c, year, Uniform(4000, 6500, u),
                                          "Terratremol de rift, magnitud"),
                tiles |-> tl ]
         ELSE [ event |-> GeologicalEvent("volcano", c, year, Uniform(4000, 6500, u),
                                          "Activitat volcanica en dorsal oceanica"),
                tiles |-> RaiseAltitude(tl, c, 8) ]
    ELSE [ event |-> GeologicalEvent("earthquake", c, year, Uniform(5000, 8000, u),
                                     "Terratremol de falla transformant, magnitud"),
           tiles |-> tl ]

\* random.choice(boundary.tiles): the element at index int(u * len) for a unit
\* draw u, the list being taken in scan order
ScanPos(c) == c[1] * height + c[2]
TilePicks(ts) ==
    { c \in ts : \E u \in ChoiceDraws :
        Cardinality({d \in ts : ScanPos(d) < ScanPos(c)}) = (u * Cardinality(ts)) \div 1000 }

\* variant: the activity test is inverted
SkipsBoundary_Inverted(b, r0) == r0 < b.activity_level \/ b.tiles = {}
\* whether the loop skips the boundary for the draw r0 of random.random()
SkipsBoundary(b, r0) == r0 > b.activity_level \/ b.tiles = {}

\* what one iteration of the boundary loop can do to (tiles, events)
BoundaryOutcomes(b, tl, year) ==
    { [fired |-> FALSE, tiles |-> tl] : r0 \in {r \in UnitDraws : SkipsBoundary(b, r)} }
  \cup
    { [fired |-> TRUE] @@ BoundaryEvent(b, x[1], x[2], x[3], year, tl) :
        x \in { y \in TilePicks(b.tiles) \X UnitDraws \X UniformDraws :
                  \E r0 \in UnitDraws : ~SkipsBoundary(b, r0) } }

\* the results of running the loop from boundary i on
RECURSIVE SimulateFrom(_, _, _, _, _)
SimulateFrom(i, tl, events, from, year) ==
    IF i > Len(boundaries)
    THEN { [tiles |-> tl, events |-> events, from |-> from] }
    ELSE UNION { IF o.fired
                 THEN SimulateFrom(i + 1, o.tiles, Append(events, o.event), Append(from, i), year)
                 ELSE SimulateFrom(i + 1, o.tiles, events, from, year) :
                 o \in BoundaryOutcomes(boundaries[i], tl, year) }

\* variant: the log is replaced by the events of the call
LogAfter_Replace(log, events) == events
\* self.geological_events.append(event), for every event of the call in turn
LogAfter(log, events) == log \o events

simulate_geological_events(year) ==
    /\ Len(geological_events) < MaxEvents
    /\ \A i \in 1..Len(boundaries) :
           boundaries[i].plate1_id \in DOMAIN plates /\ boundaries[i].plate2_id \in DOMAIN plates
    /\ \E o \in SimulateFrom(1, tiles, << >>, << >>, year) :
           /\ tiles' = o.tiles
           /\ returned' = o.events
           /\ returned_from' = o.from
           /\ geological_events' = LogAfter(geological_events, o.events)
    /\ last' = [op |-> "simulate_geological_events", arg |-> year]
    /\ UNCHANGED <<width, height, plates, plate_map, boundaries, generations,
                   worldVars, auxVars>>

(***************************************************************************)
(* utils/noise_utils.py                                                    *)
(***************************************************************************)
Max2(a, b) == IF a > b THEN a ELSE b
\* np.clip(v, lo, hi)
Clip(v, lo, hi) == Max2(lo, Min2(hi, v))

\* 3 x 3 sample tables of the Perlin fields of seeds 1 and 2, row by row
PerlinTable(s, octaves) ==
    CASE s = 1 /\ octaves = 6 -> <<  50,  -2,  30,    4, -50,  20,    8,  12,   0 >>
      [] s = 1 /\ octaves = 4 -> << -50,  50,   0,   40, -35,  10,  -20,  36,  25 >>
      [] s = 1 /\ octaves = 3 -> <<  50, -50,   0,  -30,  50,  20,   10, -50,  40 >>
      [] s = 2 /\ octaves = 6 -> << -50,  50,  26,   30,  15,  38,   22,  45,  -5 >>
      [] s = 2 /\ octaves = 4 -> <<  50,  38, -50,   32,  -5,   0,   45, -40,  31 >>
      [] OTHER                -> <<   0,  50, -50,   50,  25, -25,  -50,  40,  10 >>

\* PerlinNoise(octaves, seed)([nx, ny]) at the grid point (px, py): the
\* library's field is fixed by (seed, octaves); values in hundredths, in
\* [-0.5, 0.5].  Seeds 1 and 2 are sampled from their tables; seed 3 is a long
\* slope falling eastwards into the sea after column 500; seed 4 is a ridge
\* rising from the west edge to a crest at column 25 and dropping into the
\* sea; seed 5 is a valley winding up rows 0..2 below a high rim on row 3,
\* with a lake in the corner
perlin(s, octaves, px, py) ==
    IF s \in {1, 2} THEN PerlinTable(s, octaves)[(py % 3) * 3 + (px % 3) + 1]
    ELSE IF octaves # 6 THEN ((px * 7 + py * 3) % 11) * 10 - 50
    ELSE CASE s = 3 -> IF px > 500 THEN -50 ELSE 50 - (px * 40) \div 500
           [] s = 4 -> IF px <= 25 THEN 25 + px
                       ELSE IF px <= 35 THEN 50 - 10 * (px - 25) ELSE -50
           [] OTHER -> IF py >= 3 THEN (IF px >= 7 THEN -50 ELSE 50)
                       ELSE 26 + py * 8 + (IF py % 2 = 1 THEN 7 - (px % 8) ELSE px % 8)

\* NoiseGenerator.generate_2d: the field sampled over the grid and doubled
generate_2d(s, octaves, offset_x) ==
    [c \in Cells |-> 2 * perlin(s, octaves, c[1] + offset_x, c[2])]

MinOf(S) == CHOOSE v \in S : \A w \in S : v <= w
MaxOf(S) == CHOOSE v \in S : \A w \in S : v >= w

\* NoiseGenerator.generate_normalized: (v - min) / (max - min), all zeros
\* for a constant map
generate_normalized(s, octaves, offset_x) ==
    LET noise_map == generate_2d(s, octaves, offset_x)
        values == {noise_map[c] : c \in Cells}
        min_val == MinOf(values)
        max_val == MaxOf(values)
    IN IF max_val - min_val > 0
       THEN [c \in Cells |-> ((noise_map[c] - min_val) * 100) \div (max_val - min_val)]
       ELSE [c \in Cells |-> 0]

\* distance ** 1.5 for a distance in hundredths: distance * sqrt(distance)
Pow15(d) == (d * ISqrt(d * 100)) \div 100

\* the radial gradient of generate_island at a cell: max(0, 1 - distance ** 1.5)
\* with dx = (x - width/2) / (width/2), dy likewise
IslandGradient(c) ==
    LET dx == (Abs(2 * c[1] - width) * 100) \div width
        dy == (Abs(2 * c[2] - height) * 100) \div height
        distance == ISqrt(dx * dx + dy * dy)
    IN Max2(0, 100 - Pow15(distance))

\* NoiseGenerator.generate_island(width, height, scale, island_factor = 1.5)
generate_island(s) ==
    LET noise_map == generate_normalized(s, 6, 0)
    IN [c \in Cells |-> (noise_map[c] * IslandGradient(c)) \div 100]

\* np.power(v, 1.8) for v in hundredths, rounded down to hundredths
Pow18 ==
    <<   0,   0,   0,   0,   0,   0,   0,   0,   1,   1,
         1,   1,   2,   2,   2,   3,   3,   4,   4,   5,
         5,   6,   6,   7,   7,   8,   8,   9,  10,  10,
        11,  12,  12,  13,  14,  15,  15,  16,  17,  18,
        19,  20,  20,  21,  22,  23,  24,  25,  26,  27,
        28,  29,  30,  31,  32,  34,  35,  36,  37,  38,
        39,  41,  42,  43,  44,  46,  47,  48,  49,  51,
        52,  53,  55,  56,  58,  59,  61,  62,  63,  65,
        66,  68,  69,  71,  73,  74,  76,  77,  79,  81,
        82,  84,  86,  87,  89,  91,  92,  94,  96,  98,
       100 >>
\* apply_redistribution_curve(values, exponent = 1.8)
apply_redistribution_curve(m) == [c \in DOMAIN m |-> Pow18[m[c] + 1]]

(***************************************************************************)
(* world/tile.py                                                           *)
(***************************************************************************)
\* the keys of Tile.resources at construction
ResourceKeys == {"minerals", "gold", "silver", "iron", "copper", "uranium",
                 "wood", "water", "fertility", "oil", "coal", "gas"}

\* Tile.update_water_status(water_level = 0.35)
update_water_status(t) ==
    LET is_water == t.altitude < 35
    IN [t EXCEPT !.is_water = is_water,
                 !.resources = IF is_water
                               THEN [@ EXCEPT !["water"] = 10000, !["wood"] = 0]
                               ELSE [@ EXCEPT !["water"] = t.humidity * 50]]

\* Tile.calculate_hostility
calculate_hostility(t) ==
    LET hostility ==
            IF t.is_water THEN 800
            ELSE (IF t.temperature < 20 THEN (20 - t.temperature) * 20
                  ELSE IF t.temperature > 80 THEN (t.temperature - 80) * 20 ELSE 0)
               + (IF t.altitude > 70 THEN (t.altitude - 70) * 10 ELSE 0)
               + (IF t.humidity < 30 THEN (30 - t.humidity) * 10 ELSE 0)
    IN [t EXCEPT !.hostility = Min2(1000, hostility)]

\* Tile.calculate_fertility
calculate_fertility(t) ==
    IF t.is_water THEN [t EXCEPT !.fertility_index = 0]
    ELSE LET fertility ==
                 (IF 40 <= t.humidity /\ t.humidity <= 70 THEN 300
                  ELSE IF 30 <= t.humidity /\ t.humidity <= 80 THEN 200
                  ELSE IF t.humidity > 20 THEN 100 ELSE 0)
               + (IF 40 <= t.temperature /\ t.temperature <= 70 THEN 300
                  ELSE IF 30 <= t.temperature /\ t.temperature <= 80 THEN 200
                  ELSE IF t.temperature > 20 THEN 100 ELSE 0)
               + (IF 35 <= t.altitude /\ t.altitude <= 60 THEN 300
                  ELSE IF 30 <= t.altitude /\ t.altitude <= 70 THEN 150 ELSE 0)
               + (IF t.is_river THEN 100 ELSE 0)
         IN [t EXCEPT !.fertility_index = Min2(1000, fertility),
                      !.resources["fertility"] = Min2(1000, fertility) * 10]

\* Tile(x, y, altitude, humidity, temperature): the defaults of the dataclass,
\* then __post_init__
Tile(altitude, humidity, temperature) ==
    update_water_status(
        [ altitude |-> altitude, humidity |-> humidity, temperature |-> temperature,
          biome |-> "none", resources |-> [k \in ResourceKeys |-> 0],
          is_water |-> FALSE, is_river |-> FALSE, river_flow |-> 0,
          hostility |-> 0, fertility_index |-> 0 ])

(***************************************************************************)
(* world/biome.py                                                          *)
(***************************************************************************)
BiomeType ==
    {"ocean_deep", "ocean_shallow", "coastal", "glacier", "tundra", "taiga",
     "grassland", "temperate_forest", "temperate_rainforest", "desert_hot",
     "desert_cold", "savanna", "tropical_rainforest", "tropical_seasonal_forest",
     "jungle", "mountain_low", "mountain_high", "mountain_peak", "swamp",
     "mangrove", "shrubland", "steppe"}

\* the fields of BiomeProperties that generation reads: abundances in
\* hundredths, chances in thousandths
BiomeProperties(wood, water, fert, gold, silver, iron, copper, uranium, coal, oil, gas, gems) ==
    [ wood_abundance |-> wood, water_abundance |-> water, fertility |-> fert,
      chance |-> [ gold |-> gold, silver |-> silver, iron |-> iron, copper |-> copper,
                   uranium |-> uranium, coal |-> coal, oil |-> oil, gas |-> gas,
                   gems |-> gems ] ]

\* BIOME_DEFINITIONS[b]
BIOME_DEFINITIONS(b) ==
    CASE
    b = "ocean_deep" ->
        BiomeProperties(0, 100, 10, 10, 20, 50, 50, 5, 30, 50, 40, 10)
  [] b = "ocean_shallow" ->
        BiomeProperties(0, 100, 30, 10, 20, 50, 50, 5, 30, 30, 10, 10)
  [] b = "coastal" ->
        BiomeProperties(0, 80, 60, 10, 20, 30, 50, 5, 30, 10, 10, 10)
  [] b = "glacier" ->
        BiomeProperties(0, 90, 0, 10, 20, 50, 50, 10, 30, 10, 10, 10)
  [] b = "tundra" ->
        BiomeProperties(10, 50, 20, 10, 20, 50, 50, 5, 30, 40, 60, 10)
  [] b = "taiga" ->
        BiomeProperties(80, 60, 40, 10, 20, 80, 50, 5, 60, 10, 10, 10)
  [] b = "grassland" ->
        BiomeProperties(20, 50, 85, 10, 20, 60, 60, 5, 30, 10, 10, 10)
  [] b = "temperate_forest" ->
        BiomeProperties(90, 70, 75, 10, 20, 50, 50, 5, 80, 10, 10, 10)
  [] b = "temperate_rainforest" ->
        BiomeProperties(95, 95, 80, 10, 20, 50, 50, 5, 30, 10, 10, 10)
  [] b = "desert_hot" ->
        BiomeProperties(0, 10, 10, 30, 20, 50, 50, 15, 30, 80, 10, 10)
  [] b = "desert_cold" ->
        BiomeProperties(0, 15, 10, 10, 20, 50, 80, 5, 30, 10, 10, 10)
  [] b = "savanna" ->
        BiomeProperties(40, 40, 60, 10, 20, 50, 50, 5, 30, 10, 10, 10)
  [] b = "tropical_rainforest" ->
        BiomeProperties(99, 95, 70, 10, 20, 50, 50, 5, 30, 10, 10, 30)
  [] b = "tropical_seasonal_forest" ->
        BiomeProperties(85, 70, 75, 10, 20, 50, 50, 5, 30, 10, 10, 10)
  [] b = "jungle" ->
        BiomeProperties(95, 98, 65, 20, 20, 50, 50, 5, 30, 10, 10, 10)
  [] b = "mountain_low" ->
        BiomeProperties(60, 50, 40, 10, 20, 120, 100, 5, 100, 10, 10, 10)
  [] b = "mountain_high" ->
        BiomeProperties(30, 40, 20, 50, 60, 150, 120, 5, 30, 10, 10, 40)
  [] b = "mountain_peak" ->
        BiomeProperties(0, 30, 0, 80, 100, 50, 50, 30, 30, 10, 10, 60)
  [] b = "swamp" ->
        BiomeProperties(50, 95, 50, 10, 20, 50, 50, 5, 150, 80, 10, 10)
  [] b = "mangrove" ->
        BiomeProperties(70, 90, 60, 10, 20, 50, 50, 5, 30, 10, 10, 10)
  [] b = "shrubland" ->
        BiomeProperties(30, 30, 45, 10, 20, 50, 50, 5, 30, 10, 10, 10)
  [] b = "steppe" ->
        BiomeProperties(15, 30, 55, 10, 20, 50, 50, 5, 50, 10, 10, 10)

\* variant: the jungle split is at altitude 0.5
Tropical_SplitAtHalf(altitude, humidity) ==
    IF humidity > 85
    THEN IF altitude > 50 THEN "jungle" ELSE "tropical_rainforest"
    ELSE IF humidity > 50 THEN "tropical_seasonal_forest"
    ELSE "savanna"
\* the branch of classify for temperature > 0.75
Tropical(altitude, humidity) ==
    IF humidity > 85
    THEN IF altitude > 45 THEN "jungle" ELSE "tropical_rainforest"
    ELSE IF humidity > 50 THEN "tropical_seasonal_forest"
    ELSE "savanna"

\* variant: the desert rule is evaluated before the glacial rule
classify_DesertFirst(altitude, temperature, humidity) ==
    IF altitude < 35
    THEN IF altitude < 25 THEN "ocean_deep" ELSE "ocean_shallow"
    ELSE IF 35 <= altitude /\ altitude < 42 /\ humidity > 70
    THEN IF temperature > 70 THEN "mangrove" ELSE "coastal"
    ELSE IF altitude >= 85 THEN "mountain_peak"
    ELSE IF altitude >= 75 THEN "mountain_high"
    ELSE IF altitude >= 65 THEN "mountain_low"
    ELSE IF humidity < 20
    THEN IF temperature > 75 THEN "desert_hot"
         ELSE IF temperature < 40 THEN "desert_cold"
         ELSE "steppe"
    ELSE IF temperature < 15 THEN "glacier"
    ELSE IF temperature < 25 THEN "tundra"
    ELSE IF temperature < 40 THEN "taiga"
    ELSE IF temperature > 75 THEN Tropical(altitude, humidity)
    ELSE IF 40 <= temperature /\ temperature <= 75
    THEN IF humidity > 85 THEN "swamp"
         ELSE IF humidity > 80 THEN "temperate_rainforest"
         ELSE IF humidity > 50 THEN "temperate_forest"
         ELSE IF humidity > 30 THEN "grassland"
         ELSE "shrubland"
    ELSE "shrubland"
\* BiomeClassifier.classify(altitude, temperature, humidity)
classify(altitude, temperature, humidity) ==
    IF altitude < 35
    THEN IF altitude < 25 THEN "ocean_deep" ELSE "ocean_shallow"
    ELSE IF 35 <= altitude /\ altitude < 42 /\ humidity > 70
    THEN IF temperature > 70 THEN "mangrove" ELSE "coastal"
    ELSE IF altitude >= 85 THEN "mountain_peak"
    ELSE IF altitude >= 75 THEN "mountain_high"
    ELSE IF altitude >= 65 THEN "mountain_low"
    ELSE IF temperature < 15 THEN "glacier"
    ELSE IF temperature < 25 THEN "tundra"
    ELSE IF temperature < 40 THEN "taiga"
    ELSE IF humidity < 20
    THEN IF temperature > 75 THEN "desert_hot"
         ELSE IF temperature < 40 THEN "desert_cold"
         ELSE "steppe"
    ELSE IF temperature > 75 THEN Tropical(altitude, humidity)
    ELSE IF 40 <= temperature /\ temperature <= 75
    THEN IF humidity > 85 THEN "swamp"
         ELSE IF humidity > 80 THEN "temperate_rainforest"
         ELSE IF humidity > 50 THEN "temperate_forest"
         ELSE IF humidity > 30 THEN "grassland"
         ELSE "shrubland"
    ELSE "shrubland"

(***************************************************************************)
(* world/world_generator.py                                                *)
(***************************************************************************)
\* the locals of generate_rivers between two walks
IdleRiver ==
    [ attempts |-> 0, rivers_created |-> 0, walking |-> FALSE,
      x |-> 0, y |-> 0, step |-> 0, river_path |-> << >> ]

\* WorldGenerator.generate_altitude(island_mode)
generate_altitude ==
    /\ pc = "constructed"
    /\ altitude_map' = apply_redistribution_curve(
                           IF island_mode THEN generate_island(seed)
                           ELSE generate_normalized(seed, 6, 0))
    /\ pc' = "altitude"
    /\ UNCHANGED <<width, height, seed, island_mode, num_rivers, humidity_map,
                   temperature_map, tiles, river, rivers, tectVars, auxVars>>

\* the humidity of a cell from its noise value and its altitude
HumidityAt(noise, altitude) ==
    LET dried == IF altitude > 70
                 THEN (noise * (1000 - (altitude - 70) * 15)) \div 1000
                 ELSE noise
    IN Clip(IF altitude < 35 THEN 100 ELSE dried, 0, 100)

\* WorldGenerator.generate_humidity
generate_humidity ==
    /\ pc = "altitude"
    /\ LET noise_map == generate_normalized(seed, 4, 1000)
       IN humidity_map' = [c \in Cells |-> HumidityAt(noise_map[c], altitude_map[c])]
    /\ pc' = "humidity"
    /\ UNCHANGED <<width, height, seed, island_mode, num_rivers, altitude_map,
                   temperature_map, tiles, river, rivers, tectVars, auxVars>>

\* the temperature of a cell of row y: 80% latitude (pole 0.1, equator 0.9),
\* 20% noise, cooled by altitude above 0.5, clipped; computed in thousandths
TemperatureAt(y, noise, altitude) ==
    LET distance_to_equator == (Abs(2 * y - height) * 100) \div height
        base_temp == 10 + (80 * (100 - distance_to_equator)) \div 100
        combined == base_temp * 8 + noise * 2
        cooled == IF altitude > 50 THEN combined - (altitude - 50) * 4 ELSE combined
    IN Clip(cooled, 0, 1000) \div 10

\* WorldGenerator.generate_temperature
generate_temperature ==
    /\ pc = "humidity"
    /\ LET noise_variation == generate_normalized(seed, 3, 2000)
       IN temperature_map' =
              [c \in Cells |-> TemperatureAt(c[2], noise_variation[c], altitude_map[c])]
    /\ pc' = "temperature"
    /\ UNCHANGED <<width, height, seed, island_mode, num_rivers, altitude_map,
                   humidity_map, tiles, river, rivers, tectVars, auxVars>>

\* WorldGenerator.create_tiles
create_tiles ==
    /\ pc = "temperature"
    /\ tiles' = [c \in Cells |->
                    calculate_fertility(calculate_hostility(
                        Tile(altitude_map[c], humidity_map[c], temperature_map[c])))]
    /\ pc' = "tiles"
    /\ UNCHANGED <<width, height, seed, island_mode, num_rivers, altitude_map,
                   humidity_map, temperature_map, river, rivers, tectVars, auxVars>>

\* the start cells np.random.randint draws in generate_rivers
RiverStarts ==
    {<<0, 0>>, <<2, 2>>, <<10, 0>>, <<22, 0>>, <<25, 0>>, <<250, 0>>, <<400, 0>>} \cap Cells

\* generate_rivers, top of the attempt loop: the loop guard, the start draw
\* and the altitude test of the start
river_attempt(start) ==
    /\ pc = "tiles"
    /\ ~river.walking
    /\ river.attempts < num_rivers * 3
    /\ river.rivers_created < num_rivers
    /\ river' = IF altitude_map[start] < 60
                THEN [river EXCEPT !.attempts = @ + 1]
                ELSE [river EXCEPT !.attempts = @ + 1, !.walking = TRUE,
                                   !.x = start[1], !.y = start[2]]
    /\ UNCHANGED <<width, height, seed, island_mode, num_rivers, altitude_map,
                   humidity_map, temperature_map, tiles, rivers, pc, tectVars, auxVars>>

\* the neighbour offsets of the walk, in the order of the source
Dirs8 == << <<-1, 0>>, <<1, 0>>, <<0, -1>>, <<0, 1>>,
            <<-1, -1>>, <<1, 1>>, <<-1, 1>>, <<1, -1>> >>
PathSet(path) == {path[i] : i \in 1..Len(path)}

\* the list neighbors of the walk at cell c: in bounds and not visited
RiverNeighbors(c, visited) ==
    SelectSeq([k \in 1..8 |-> <<c[1] + Dirs8[k][1], c[2] + Dirs8[k][2]>>],
              LAMBDA n : n \in Cells /\ n \notin visited)

\* min(neighbors, key = altitude): the first neighbour of minimal altitude
LowestNeighbor(neighbors) ==
    neighbors[CHOOSE i \in 1..Len(neighbors) :
                 /\ \A j \in 1..Len(neighbors) :
                        altitude_map[neighbors[i]] <= altitude_map[neighbors[j]]
                 /\ \A j \in 1..(i - 1) :
                        altitude_map[neighbors[j]] > altitude_map[neighbors[i]]]

\* variant: water tiles of the path are marked too
MarkRiver_WaterToo(tl, path) ==
    [c \in DOMAIN tl |->
        IF c \in PathSet(path)
        THEN [tl[c] EXCEPT !.is_river = TRUE, !.river_flow = 100,
                           !.resources["water"] = 10000]
        ELSE tl[c]]
\* the marking loop over a river path
MarkRiver(tl, path) ==
    [c \in DOMAIN tl |->
        IF c \in PathSet(path) /\ ~tl[c].is_water
        THEN [tl[c] EXCEPT !.is_river = TRUE, !.river_flow = 100,
                           !.resources["water"] = 10000]
        ELSE tl[c]]

\* variant: a path is committed whatever its length
LongEnough_Always(path) == TRUE
\* len(river_path) >= min_length, min_length = 20 as generate_full_world calls it
LongEnough(path) == Len(path) >= 20

\* the code after the walk: the river is committed when long enough
EndWalk(path) ==
    IF LongEnough(path)
    THEN /\ tiles' = MarkRiver(tiles, path)
         /\ river' = [IdleRiver EXCEPT !.attempts = river.attempts,
                                       !.rivers_created = river.rivers_created + 1]
         /\ rivers' = Append(rivers, [path |-> path,
                                      start_altitude |-> altitude_map[path[1]]])
    ELSE /\ river' = [IdleRiver EXCEPT !.attempts = river.attempts,
                                       !.rivers_created = river.rivers_created]
         /\ UNCHANGED <<tiles, rivers>>

\* one iteration of "for step in range(500)", with the code after the loop
\* when the iteration is the last
river_step ==
    /\ pc = "tiles"
    /\ river.walking
    /\ LET c == <<river.x, river.y>>
           visited == PathSet(river.river_path)
       IN IF c \in visited THEN EndWalk(river.river_path)
          ELSE LET path == Append(river.river_path, c)
                   neighbors == RiverNeighbors(c, visited \cup {c})
               IN IF tiles[c].is_water \/ Len(neighbors) = 0 \/ river.step + 1 >= 500
                  THEN EndWalk(path)
                  ELSE /\ river' = [river EXCEPT !.river_path = path,
                                                 !.x = LowestNeighbor(neighbors)[1],
                                                 !.y = LowestNeighbor(neighbors)[2],
                                                 !.step = @ + 1]
                       /\ UNCHANGED <<tiles, rivers>>
    /\ UNCHANGED <<width, height, seed, island_mode, num_rivers, altitude_map,
                   humidity_map, temperature_map, pc, tectVars, auxVars>>

\* variant: only land tiles are classified
BiomeOf_LandOnly(t) ==
    IF t.is_water THEN t.biome ELSE classify(t.altitude, t.temperature, t.humidity)
\* the classification of one tile in assign_biomes
BiomeOf(t) == classify(t.altitude, t.temperature, t.humidity)

\* WorldGenerator.assign_biomes, entered when the attempt loop of
\* generate_rivers is over
assign_biomes ==
    /\ pc = "tiles"
    /\ ~river.walking
    /\ river.attempts >= num_rivers * 3 \/ river.rivers_created >= num_rivers
    /\ tiles' = [c \in DOMAIN tiles |->
                    [tiles[c] EXCEPT !.biome = BiomeOf(tiles[c])]]
    /\ pc' = "biomes"
    /\ UNCHANGED <<width, height, seed, island_mode, num_rivers, altitude_map,
                   humidity_map, temperature_map, river, rivers, tectVars, auxVars>>

Minerals == {"gold", "silver", "iron", "copper", "uranium", "coal", "oil", "gas", "gems"}
\* the bounds of np.random.uniform for each mineral, in hundredths
MineralRange(m) ==
    CASE m = "gold" -> <<2000, 10000>>
      [] m = "silver" -> <<3000, 10000>>
      [] m = "iron" -> <<4000, 10000>>
      [] m = "copper" -> <<4000, 10000>>
      [] m = "uranium" -> <<1000, 6000>>
      [] m = "coal" -> <<5000, 10000>>
      [] m = "oil" -> <<3000, 10000>>
      [] m = "gas" -> <<3000, 10000>>
      [] OTHER -> <<1000, 8000>>

\* the draws of one generate_resources call: roll is the value of every
\* np.random.random(), amount the unit draw behind every np.random.uniform
ResourceDraws ==
    { [roll |-> 0, amount |-> 0], [roll |-> 0, amount |-> 999],
      [roll |-> 999, amount |-> 0] }

\* the body of the tile loop of generate_resources
TileResources(t, rd) ==
    IF t.biome = "none" THEN t
    ELSE LET biome_props == BIOME_DEFINITIONS(t.biome)
             base == [t.resources EXCEPT
                         !["wood"] = biome_props.wood_abundance * 100,
                         !["water"] = IF @ < biome_props.water_abundance * 100
                                      THEN biome_props.water_abundance * 100 ELSE @,
                         !["fertility"] = biome_props.fertility * 100]
             found == {m \in Minerals : rd.roll < biome_props.chance[m]}
         IN [t EXCEPT !.resources =
                [k \in (DOMAIN base) \cup found |->
                    IF k \in found
                    THEN Uniform(MineralRange(k)[1], MineralRange(k)[2], rd.amount)
                    ELSE base[k]]]

\* WorldGenerator.generate_resources, the last stage of generate_full_world
generate_resources(rd) ==
    /\ pc = "biomes"
    /\ tiles' = [c \in DOMAIN tiles |-> TileResources(tiles[c], rd)]
    /\ pc' = "done"
    /\ UNCHANGED <<width, height, seed, island_mode, num_rivers, altitude_map,
                   humidity_map, temperature_map, river, rivers, tectVars, auxVars>>

\* generate_full_world(island_mode, num_rivers): its stages, in its order
generate_full_world ==
    \/ generate_altitude
    \/ generate_humidity
    \/ generate_temperature
    \/ create_tiles
    \/ \E start \in RiverStarts : river_attempt(start)
    \/ river_step
    \/ assign_biomes
    \/ \E rd \in ResourceDraws : generate_resources(rd)

(***************************************************************************)
(* world/world.py                                                          *)
(***************************************************************************)
\* the statistics dict before any get_statistics call
NoStats ==
    [ total_tiles |-> 0, water_tiles |-> 0, land_tiles |-> 0, river_tiles |-> 0,
      water_percentage |-> 0, fertile_land |-> 0, fertile_percentage |-> 0,
      hostile_land |-> 0, hostile_percentage |-> 0, avg_altitude |-> 0 ]
\* no query has been made
NoQuery ==
    [ op |-> "none", x |-> 0, y |-> 0, radius |-> 0, raised |-> FALSE,
      none |-> FALSE, found |-> << >>, stats |-> NoStats ]

\* World.__init__(width, height, seed): the arguments are stored as given
World_init(w, h, s) ==
    /\ pc = "none"
    /\ width' = w
    /\ height' = h
    /\ seed' = s
    /\ island_mode' = FALSE
    /\ num_rivers' = 1
    /\ pc' = "constructed"
    /\ UNCHANGED <<altitude_map, humidity_map, temperature_map, tiles, river, rivers,
                   tectVars, auxVars>>

\* World.generate on a grid with no cell: np.zeros refuses a negative
\* dimension and np.min refuses an empty array, so generate_altitude raises
\* and World.tiles stays []
generate_fails ==
    /\ pc = "constructed"
    /\ width <= 0 \/ height <= 0
    /\ pc' = "raised"
    /\ UNCHANGED <<width, height, seed, island_mode, num_rivers, altitude_map,
                   humidity_map, temperature_map, tiles, river, rivers, tectVars, auxVars>>

\* World.tiles: [] until generate has returned the grid
WorldTiles == IF pc = "done" THEN tiles ELSE EmptyMap
\* the World object exists and no call on it is running
WorldIdle == pc \in {"constructed", "raised", "done"}

\* variant: the lower bounds are not tested
InBounds_NoLower(x, y) == x < width /\ y < height
\* 0 <= x < self.width and 0 <= y < self.height
InBounds(x, y) == 0 <= x /\ x < width /\ 0 <= y /\ y < height

\* self.tiles[y][x] raises IndexError when the grid has no such entry
Indexable(x, y) == <<x, y>> \in DOMAIN WorldTiles

\* World.get_tile(x, y)
get_tile(x, y) ==
    /\ WorldIdle
    /\ query' = [ NoQuery EXCEPT
                    !.op = "get_tile", !.x = x, !.y = y,
                    !.raised = InBounds(x, y) /\ ~Indexable(x, y),
                    !.none = ~InBounds(x, y),
                    !.found = IF InBounds(x, y) /\ Indexable(x, y)
                              THEN << [pos |-> <<x, y>>, tile |-> WorldTiles[<<x, y>>]] >>
                              ELSE << >> ]
    /\ UNCHANGED <<width, height, tiles, worldVars, tectVars, cls, btype, first_run, climVars>>

\* the positions get_neighbors asks get_tile for, in loop order: dy outer, dx
\* inner, (0, 0) skipped
NeighborPositions(x, y, radius) ==
    LET n == 2 * radius + 1
    IN IF radius < 0 THEN << >>
       ELSE SelectSeq([k \in 1..(n * n) |->
                          <<x + ((k - 1) % n) - radius, y + ((k - 1) \div n) - radius>>],
                      LAMBDA c : c # <<x, y>>)

\* World.get_neighbors(x, y, radius)
get_neighbors(x, y, radius) ==
    LET asked == NeighborPositions(x, y, radius)
        inside == SelectSeq(asked, LAMBDA c : InBounds(c[1], c[2]))
        raised == \E k \in 1..Len(inside) : ~Indexable(inside[k][1], inside[k][2])
    IN /\ WorldIdle
       /\ query' = [ NoQuery EXCEPT
                       !.op = "get_neighbors", !.x = x, !.y = y, !.radius = radius,
                       !.raised = raised,
                       !.found = IF raised THEN << >>
                                 ELSE [k \in 1..Len(inside) |->
                                          [pos |-> inside[k], tile |-> WorldTiles[inside[k]]]] ]
       /\ UNCHANGED <<width, height, tiles, worldVars, tectVars, cls, btype, first_run, climVars>>

\* n / d scaled: 0 / d is 0 for every non-zero d
Ratio(n, d, scale) == IF n = 0 THEN 0 ELSE (n * scale) \div d
RECURSIVE SumAltitude(_, _)
SumAltitude(tl, cs) ==
    IF cs = {} THEN 0
    ELSE LET c == CHOOSE d \in cs : TRUE
         IN tl[c].altitude + SumAltitude(tl, cs \ {c})

\* the dict get_statistics returns when no division faults: percentages in
\* hundredths of a percent, fertility_index > 6 and hostility > 7
Statistics ==
    LET tl == WorldTiles
        total_tiles == width * height
        water_tiles == Cardinality({c \in DOMAIN tl : tl[c].is_water})
        land_tiles == total_tiles - water_tiles
        fertile_land == Cardinality({c \in DOMAIN tl :
                                        ~tl[c].is_water /\ tl[c].fertility_index > 600})
        hostile_land == Cardinality({c \in DOMAIN tl :
                                        ~tl[c].is_water /\ tl[c].hostility > 700})
    IN [ total_tiles |-> total_tiles, water_tiles |-> water_tiles,
         land_tiles |-> land_tiles,
         river_tiles |-> Cardinality({c \in DOMAIN tl : tl[c].is_river}),
         water_percentage |-> Ratio(water_tiles, total_tiles, 10000),
         fertile_land |-> fertile_land,
         fertile_percentage |-> IF land_tiles > 0
                                THEN Ratio(fertile_land, land_tiles, 10000) ELSE 0,
         hostile_land |-> hostile_land,
         hostile_percentage |-> IF land_tiles > 0
                                THEN Ratio(hostile_land, land_tiles, 10000) ELSE 0,
         avg_altitude |-> Ratio(SumAltitude(tl, DOMAIN tl), total_tiles, 1) ]

\* World.get_statistics: the averages divide by total_tiles before the dict
\* is built, so the call raises ZeroDivisionError when total_tiles is 0
get_statistics ==
    /\ WorldIdle
    /\ query' = [ NoQuery EXCEPT
                    !.op = "get_statistics",
                    !.raised = (width * height = 0),
                    !.stats = IF width * height = 0 THEN NoStats ELSE Statistics ]
    /\ UNCHANGED <<width, height, tiles, worldVars, tectVars, cls, btype, first_run, climVars>>

(***************************************************************************)
(* world/climate_system.py                                                 *)
(***************************************************************************)
\* ClimateSystem.__init__: March, spring, empty maps
NewClimate ==
    /\ current_month = 3
    /\ current_season = "spring"
    /\ weather_patterns = EmptyMap
    /\ water_cycles = EmptyMap
    /\ climate_call = [ op |-> "init", weather_called |-> FALSE,
                        world_tiles |-> EmptyMap, season |-> "spring",
                        advances |-> 0 ]

\* variant: December is still counted in autumn
SeasonOf_LateWinter(month) ==
    IF month \in {3, 4, 5} THEN "spring"
    ELSE IF month \in {6, 7, 8} THEN "summer"
    ELSE IF month \in {9, 10, 11, 12} THEN "autumn"
    ELSE "winter"
\* the seasons, by month: 3-5 spring, 6-8 summer, 9-11 autumn, else winter
SeasonOf(month) ==
    IF month \in {3, 4, 5} THEN "spring"
    ELSE IF month \in {6, 7, 8} THEN "summer"
    ELSE IF month \in {9, 10, 11} THEN "autumn"
    ELSE "winter"

\* _initialize_atmospheric_cells: latitude bounds in thousandths
atmospheric_cells ==
    << [cell_type |-> "polar",  latitude_min |-> 670, latitude_max |-> 1000],
       [cell_type |-> "ferrel", latitude_min |-> 330, latitude_max |-> 670],
       [cell_type |-> "hadley", latitude_min |-> 0,   latitude_max |-> 330] >>

\* latitude = y / self.world_height, in thousandths
Latitude(y) == (y * 1000) \div height

\* _calculate_temperature(latitude, altitude), in thousandths of a degree
_calculate_temperature(latitude, altitude) ==
    30000 - latitude * 70 - altitude * 325

\* _adjust_for_season(base_temp, latitude) under the season given
_adjust_for_season(base_temp, latitude, season) ==
    LET seasonal_variation == latitude * 15
    IN CASE season = "summer" -> base_temp + seasonal_variation
         [] season = "winter" -> base_temp - seasonal_variation
         [] season = "spring" -> base_temp + (seasonal_variation * 3) \div 10
         [] OTHER -> base_temp - (seasonal_variation * 3) \div 10

\* _calculate_precipitation(humidity, temperature, altitude, is_water) under
\* the season given, in hundredths of a mm
_calculate_precipitation(humidity, temperature, altitude, is_water, season) ==
    IF is_water THEN 5000
    ELSE LET base_precip == humidity * 200
             temp_factor == IF temperature > 0 THEN 1000 + temperature \div 60 ELSE 300
             altitude_factor == 1000 + altitude * 8
             precip == (((base_precip * temp_factor) \div 1000) * altitude_factor) \div 1000
             seasonal == IF season \in {"spring", "autumn"} THEN (precip * 12) \div 10
                         ELSE IF season = "winter" THEN (precip * 8) \div 10
                         ELSE precip
         IN Clip(seasonal, 0, 50000)

\* _calculate_wind(latitude, altitude): speed in hundredths of km/h
_calculate_wind(latitude, altitude) ==
    LET hits == {i \in 1..3 : /\ atmospheric_cells[i].latitude_min <= latitude
                              /\ latitude < atmospheric_cells[i].latitude_max}
        cell == IF hits = {} THEN atmospheric_cells[1]
                ELSE atmospheric_cells[CHOOSE i \in hits : \A j \in hits : i <= j]
        base_speed == CASE cell.cell_type = "hadley" -> 20
                        [] cell.cell_type = "ferrel" -> 30
                        [] OTHER -> 25
    IN [ speed |-> (base_speed * (200 + altitude)) \div 2,
         direction |-> CASE cell.cell_type = "hadley" ->
                                (IF latitude < 170 THEN "northeast" ELSE "southwest")
                         [] cell.cell_type = "ferrel" -> "west"
                         [] OTHER -> "east" ]

\* the WeatherPattern calculate_weather_patterns builds for the tile at c
\* under the season given; cloud_cover in thousandths
WeatherPattern(c, tile, season) ==
    LET latitude == Latitude(c[2])
        seasonal_temp == _adjust_for_season(
                             _calculate_temperature(latitude, tile.altitude),
                             latitude, season)
        precipitation == _calculate_precipitation(tile.humidity, seasonal_temp,
                                                  tile.altitude, tile.is_water, season)
        wind == _calculate_wind(latitude, tile.altitude)
    IN [ x |-> c[1], y |-> c[2], temperature |-> seasonal_temp,
         precipitation |-> precipitation, wind_speed |-> wind.speed,
         wind_direction |-> wind.direction,
         cloud_cover |-> Min2(1000, tile.humidity * 7 + precipitation \div 20),
         humidity |-> tile.humidity ]

\* the WaterCycle simulate_water_cycle builds for a tile from its stored
\* weather pattern, in hundredths of a mm
WaterCycle(tile, weather) ==
    LET evaporation ==
            IF tile.is_water
            THEN ((IF weather.temperature > 0 THEN 15000 ELSE 3000)
                      * (30000 + weather.temperature)) \div 30000
            ELSE ((IF weather.temperature > 0 THEN 50 ELSE 10) * tile.humidity
                      * (40000 + weather.temperature)) \div 40000
        infiltration ==
            IF ~tile.is_water /\ weather.precipitation > 0
            THEN (weather.precipitation * (IF tile.altitude < 50 THEN 6 ELSE 3)) \div 10
            ELSE 0
    IN [ evaporation |-> evaporation,
         condensation |-> (evaporation * weather.cloud_cover) \div 1000,
         precipitation |-> weather.precipitation,
         infiltration |-> infiltration,
         runoff |-> IF tile.is_water THEN 0 ELSE weather.precipitation - infiltration ]

\* ClimateSystem.advance_season
advance_season ==
    /\ current_month' = (current_month % 12) + 1
    /\ current_season' = SeasonOf((current_month % 12) + 1)
    /\ climate_call' = [climate_call EXCEPT !.op = "advance_season",
                                            !.advances = (@ + 1) % 12]
    /\ UNCHANGED <<width, height, tiles, worldVars, tectVars, cls, btype, first_run, query,
                   weather_patterns, water_cycles>>

\* self.weather_patterns[(x, y)] = pattern for every tile of the call: the
\* entries of other coordinates stay
StorePatterns(stored, patterns) ==
    [c \in (DOMAIN stored) \cup (DOMAIN patterns) |->
        IF c \in DOMAIN patterns THEN patterns[c] ELSE stored[c]]

\* ClimateSystem.calculate_weather_patterns(world_tiles)
calculate_weather_patterns(world_tiles) ==
    LET patterns == [c \in DOMAIN world_tiles |->
                        WeatherPattern(c, world_tiles[c], current_season)]
    IN /\ weather_patterns' = StorePatterns(weather_patterns, patterns)
       /\ climate_call' = [ op |-> "calculate_weather_patterns", weather_called |-> TRUE,
                            world_tiles |-> world_tiles, season |-> current_season,
                            advances |-> climate_call.advances ]
       /\ UNCHANGED <<width, height, tiles, worldVars, tectVars, cls, btype, first_run, query,
                      current_month, current_season, water_cycles>>

\* ClimateSystem.simulate_water_cycle(world_tiles): tiles without a stored
\* weather pattern are skipped
simulate_water_cycle(world_tiles) ==
    LET cycles == [c \in (DOMAIN world_tiles) \cap (DOMAIN weather_patterns) |->
                      WaterCycle(world_tiles[c], weather_patterns[c])]
    IN /\ water_cycles' = [c \in (DOMAIN water_cycles) \cup (DOMAIN cycles) |->
                              IF c \in DOMAIN cycles THEN cycles[c] ELSE water_cycles[c]]
       /\ climate_call' = [climate_call EXCEPT !.op = "simulate_water_cycle"]
       /\ UNCHANGED <<width, height, tiles, worldVars, tectVars, cls, btype, first_run, query,
                      current_month, current_season, weather_patterns>>

(***************************************************************************)
(* Specifications                                                          *)
(***************************************************************************)
\* no WorldGenerator has been constructed
NoWorld ==
    /\ seed = 0
    /\ island_mode = FALSE
    /\ num_rivers = 0
    /\ altitude_map = EmptyMap
    /\ humidity_map = EmptyMap
    /\ temperature_map = EmptyMap
    /\ river = IdleRiver
    /\ rivers = << >>
    /\ pc = "none"
NoCall == [altitude |-> 0, temperature |-> 0, humidity |-> 0, biome |-> "none"]
NoRun == [done |-> FALSE]
NoType == [d1 |-> OceanicEast, d2 |-> OceanicEast, boundary_type |-> "none"]
NoAux ==
    /\ cls = NoCall
    /\ btype = NoType
    /\ first_run = NoRun
    /\ query = NoQuery
    /\ NewClimate

\* PlateTectonicsSystem.__init__
NewTectonics ==
    /\ plates = EmptyMap
    /\ plate_map = EmptyMap
    /\ boundaries = << >>
    /\ geological_events = << >>
    /\ returned = << >>
    /\ returned_from = << >>
    /\ last = [op |-> "init", arg |-> 0]
    /\ generations = 0

\* WorldGenerator.__init__(width, height, seed), with the arguments the
\* world is about to be generated with
NewWorld(w, h, s, im, nr) ==
    /\ width = w
    /\ height = h
    /\ seed = s
    /\ island_mode = im
    /\ num_rivers = nr
    /\ altitude_map = EmptyMap
    /\ humidity_map = EmptyMap
    /\ temperature_map = EmptyMap
    /\ tiles = EmptyMap
    /\ river = IdleRiver
    /\ rivers = << >>
    /\ pc = "constructed"

(* The tectonics system on its own: constructed for a grid, no world tiles *)
(* handed to simulate (world_tiles = {})                                   *)
InitTect ==
    /\ \E d \in Dims : width = d[1] /\ height = d[2]
    /\ tiles = EmptyMap
    /\ NewTectonics
    /\ NoWorld
    /\ NoAux

NextTect ==
    \/ \E in \in PlateInputs : generate_plates(in)
    \/ detect_boundaries
    \/ \E year \in Years : simulate_geological_events(year)

SpecTect == InitTect /\ [][NextTect]_vars

(* A world generated by generate_full_world, then a tectonics system run   *)
(* on its tiles, as main does                                              *)
Seeds == {1, 2}
\* the plates main-like runs are generated with
WorldPlateInputs == {in \in PlateInputs : Len(in.seeds) = 3}

InitWorld ==
    /\ \E d \in Dims, s \in Seeds, im \in BOOLEAN : NewWorld(d[1], d[2], s, im, 1)
    /\ NewTectonics
    /\ NoAux

NextWorld ==
    \/ generate_full_world
    \/ pc = "done" /\ \E in \in WorldPlateInputs : generate_plates(in)
    \/ pc = "done" /\ detect_boundaries
    \/ pc = "done" /\ \E year \in Years : simulate_geological_events(year)

SpecWorld == InitWorld /\ [][NextWorld]_vars

(* Worlds with room for rivers: a strip of 502 tiles, one of 40 and an     *)
(* 8 x 4 grid                                                              *)
\* width, height, seed and num_rivers of the worlds generated
RiverWorlds == { <<502, 1, 3, 1>>, <<40, 1, 4, 1>>, <<8, 4, 5, 1>>, <<8, 4, 5, 2>> }

InitRivers ==
    /\ \E w \in RiverWorlds : NewWorld(w[1], w[2], w[3], FALSE, w[4])
    /\ NewTectonics
    /\ NoAux

SpecRivers == InitRivers /\ [][generate_full_world]_vars

(* BiomeClassifier.classify called on its own                              *)
ClassifyAltitudes == {0, 20, 24, 25, 26, 34, 35, 36, 41, 42, 43, 45, 46, 50,
                      64, 65, 66, 74, 75, 76, 84, 85, 86, 100}
ClassifyTemperatures == {0, 14, 15, 16, 24, 25, 26, 39, 40, 41, 50, 70, 71, 75,
                         76, 90, 100}
ClassifyHumidities == {0, 19, 20, 21, 30, 31, 50, 51, 70, 71, 80, 81, 85, 86,
                       90, 100}

InitClassify ==
    /\ cls \in [altitude : ClassifyAltitudes, temperature : ClassifyTemperatures,
                humidity : ClassifyHumidities, biome : {"none"}]
    /\ btype = NoType
    /\ first_run = NoRun
    /\ query = NoQuery
    /\ NewClimate
    /\ width = 1
    /\ height = 1
    /\ tiles = EmptyMap
    /\ NewTectonics
    /\ NoWorld

classify_call ==
    /\ cls.biome = "none"
    /\ cls' = [cls EXCEPT !.biome = classify(cls.altitude, cls.temperature, cls.humidity)]
    /\ UNCHANGED <<width, height, tiles, worldVars, tectVars, btype, first_run, query, climVars>>

SpecClassify == InitClassify /\ [][classify_call]_vars

(* _determine_boundary_type called on its own, on two plates created from *)
(* the draws of generate_plates                                            *)
TypeDirections == {0, 20, 40, 60, 80, 100, 120, 140, 160, 180, 200, 220, 240,
                   260, 280, 300, 320, 340}
TypeSpeeds == {2, 4, 10}
TypeDraws == [r : {0}, speed : TypeSpeeds, direction : TypeDirections, age : {50}]

InitType ==
    /\ btype \in [d1 : TypeDraws, d2 : TypeDraws, boundary_type : {"none"}]
    /\ cls = NoCall
    /\ first_run = NoRun
    /\ query = NoQuery
    /\ NewClimate
    /\ width = 1
    /\ height = 1
    /\ tiles = EmptyMap
    /\ NewTectonics
    /\ NoWorld

boundary_type_call ==
    /\ btype.boundary_type = "none"
    /\ btype' = [btype EXCEPT !.boundary_type =
                     _determine_boundary_type(NewPlate(0, btype.d1, EmptyMap),
                                              NewPlate(1, btype.d2, EmptyMap))]
    /\ UNCHANGED <<width, height, tiles, worldVars, tectVars, cls, first_run, query,
                   climVars>>

SpecType == InitType /\ [][boundary_type_call]_vars

(* Two runs of main's sequence, one after the other, on fresh objects      *)
(* built from the same width, height, seed and options                     *)
InitDet ==
    /\ \E d \in Dims : NewWorld(d[1], d[2], 1, FALSE, 1)
    /\ NewTectonics
    /\ NoAux

\* the first run is over: its outputs are kept and everything is constructed anew
second_run ==
    /\ ~first_run.done
    /\ pc = "done"
    /\ last.op = "simulate_geological_events"
    /\ first_run' = [ done |-> TRUE, tiles |-> tiles, plate_map |-> plate_map,
                      num_plates |-> Cardinality(DOMAIN plates),
                      boundaries |-> boundaries,
                      geological_events |-> geological_events ]
    /\ altitude_map' = EmptyMap
    /\ humidity_map' = EmptyMap
    /\ temperature_map' = EmptyMap
    /\ tiles' = EmptyMap
    /\ river' = IdleRiver
    /\ rivers' = << >>
    /\ pc' = "constructed"
    /\ plates' = EmptyMap
    /\ plate_map' = EmptyMap
    /\ boundaries' = << >>
    /\ geological_events' = << >>
    /\ returned' = << >>
    /\ returned_from' = << >>
    /\ last' = [op |-> "init", arg |-> 0]
    /\ generations' = 0
    /\ UNCHANGED <<width, height, seed, island_mode, num_rivers, cls, btype,
                   query, climVars>>

NextDet ==
    \/ generate_full_world
    \/ pc = "done" /\ last.op = "init" /\ \E in \in PlateInputs : generate_plates(in)
    \/ pc = "done" /\ last.op = "generate_plates" /\ detect_boundaries
    \/ pc = "done" /\ last.op = "detect_boundaries" /\ simulate_geological_events(0)
    \/ second_run

SpecDet == InitDet /\ [][NextDet]_vars

(* The World object from before its construction: any integers as          *)
(* dimensions, then generate and the queries                               *)
ApiSizes == {-1, 0, 3}
QueryCoords == {-1, 0, 2, 3}
Radii == 0..2

InitApi ==
    /\ width = 0
    /\ height = 0
    /\ tiles = EmptyMap
    /\ NoWorld
    /\ NewTectonics
    /\ NoAux

NextApi ==
    \/ \E w \in ApiSizes, h \in ApiSizes : World_init(w, h, 1)
    \/ width > 0 /\ height > 0 /\ generate_full_world
    \/ generate_fails
    \/ \E x \in QueryCoords, y \in QueryCoords : get_tile(x, y)
    \/ \E x \in QueryCoords, y \in QueryCoords, radius \in Radii : get_neighbors(x, y, radius)
    \/ get_statistics

SpecApi == InitApi /\ [][NextApi]_vars

(* The climate system on its own, constructed for a 2 x 4 grid and called   *)
(* with dicts of tiles over the whole grid or over its two middle rows      *)
ClimateDims == <<2, 4>>
\* the tile of a cell: altitude rising with y, sea on row 0
ClimateTile(c) == Tile(20 + 25 * c[2] + 5 * c[1], 90 - 20 * c[2], 50)
ClimateTileDicts ==
    { [c \in Cells |-> ClimateTile(c)],
      [c \in (0..(width - 1)) \X (1..(height - 2)) |-> ClimateTile(c)] }

InitClimate ==
    /\ width = ClimateDims[1]
    /\ height = ClimateDims[2]
    /\ tiles = EmptyMap
    /\ NoWorld
    /\ NewTectonics
    /\ NoAux

NextClimate ==
    \/ advance_season
    \/ \E world_tiles \in ClimateTileDicts : calculate_weather_patterns(world_tiles)
    \/ \E world_tiles \in ClimateTileDicts : simulate_water_cycle(world_tiles)

SpecClimate == InitClimate /\ [][NextClimate]_vars

(***************************************************************************)
(* Claims on the tectonics system                                          *)
(***************************************************************************)
InRange(v, lo, hi) == lo <= v /\ v <= hi
IsPrefix(s, t) == Len(s) <= Len(t) /\ \A i \in 1..Len(s) : s[i] = t[i]
RECURSIVE SumSizes(_, _)
SumSizes(f, ids) ==
    IF ids = {} THEN 0
    ELSE LET i == CHOOSE j \in ids : TRUE
         IN Cardinality(f[i].tiles) + SumSizes(f, ids \ {i})

\* C1: after generate_plates(n) with n >= 1 the plates are a strict partition
\* of the grid: exactly the plate objects 0..n-1, every grid cell in the tile
\* set of exactly one plate, the one plate_map names, no cell outside the grid
\* owned, and the tile-set sizes sum to width * height
C1_PlatePartition ==
    (last.op = "generate_plates" /\ last.arg >= 1) =>
        /\ DOMAIN plates = 0..(last.arg - 1)
        /\ \A c \in Cells :
              /\ c \in DOMAIN plate_map
              /\ plate_map[c] \in DOMAIN plates
              /\ \A i \in DOMAIN plates : c \in plates[i].tiles <=> i = plate_map[c]
        /\ \A i \in DOMAIN plates : plates[i].tiles \subseteq Cells
        /\ SumSizes(plates, DOMAIN plates) = width * height

\* C26: after a second or later generate_plates call on the same system (with
\* n >= 1) the plates held are those of the last call, ids 0..n-1 for its n,
\* and their tile sets partition the grid; nothing of an earlier call remains.
C26_RegenerationKeepsPartition ==
    (last.op = "generate_plates" /\ generations >= 2 /\ last.arg >= 1) =>
        /\ DOMAIN plates = 0..(last.arg - 1)
        /\ UNION {plates[i].tiles : i \in DOMAIN plates} = Cells
        /\ \A i, j \in DOMAIN plates :
               i # j => plates[i].tiles \cap plates[j].tiles = {}
        /\ \A i \in DOMAIN plates : plates[i].tiles # {} => i \in 0..(last.arg - 1)

OtherPlate(b, i) == IF i = b.plate1_id THEN b.plate2_id ELSE b.plate1_id
Owner(c) == CHOOSE i \in DOMAIN plates : c \in plates[i].tiles
Owned(c) == \E i \in DOMAIN plates : c \in plates[i].tiles
\* 4-neighbours of a cell, toroidal on X only
NeighboursWrapX(c) ==
    { <<(c[1] + 1) % width, c[2]>>, <<(c[1] - 1) % width, c[2]>> }
  \cup { d \in {<<c[1], c[2] + 1>>, <<c[1], c[2] - 1>>} : d[2] >= 0 /\ d[2] < height }
\* 4-neighbours of a cell, toroidal on X and on Y
NeighboursWrapXY(c) ==
    { <<(c[1] + 1) % width, c[2]>>, <<(c[1] - 1) % width, c[2]>>,
      <<c[1], (c[2] + 1) % height>>, <<c[1], (c[2] - 1) % height>> }
OnBoundary(b, c, nbs) ==
    /\ plate_map[c] \in {b.plate1_id, b.plate2_id}
    /\ c \in plates[plate_map[c]].tiles
    /\ \E d \in nbs : d \in plates[OtherPlate(b, plate_map[c])].tiles

C7_LogAppendOnly ==
    [][ /\ IsPrefix(geological_events, geological_events')
        /\ last'.op # "simulate_geological_events" =>
              geological_events' = geological_events
        /\ last'.op = "simulate_geological_events" =>
              /\ geological_events' = geological_events \o returned'
              /\ Len(returned_from') = Len(returned')
              /\ \A k \in 1..Len(returned') :
                    /\ returned_from'[k] \in 1..Len(boundaries)
                    /\ \A j \in 1..(k - 1) : returned_from'[j] < returned_from'[k]
                    /\ returned'[k].year = last'.arg
                    /\ <<returned'[k].x, returned'[k].y>>
                          \in boundaries[returned_from'[k]].tiles
      ]_vars

\* a simulate call that returned two events and appended them to a log that
\* already held events
C7_Witness ==
    /\ last.op = "simulate_geological_events"
    /\ Len(returned) >= 2
    /\ Len(geological_events) > Len(returned)
    /\ generations = 2

IsContinentalCollision(b) ==
    /\ b.boundary_type = "convergent"
    /\ b.tiles # {}
    /\ plates[b.plate1_id].plate_type = "continental"
    /\ plates[b.plate2_id].plate_type = "continental"
    /\ b.activity_level = 1000

\* C8: a convergent boundary with a tile, between two continental plates and
\* with activity 1.0, gets exactly one event from every simulate call, and it
\* is mountain_building
C8_ContinentalCollision ==
    last.op = "simulate_geological_events" =>
        \A i \in 1..Len(boundaries) :
            IsContinentalCollision(boundaries[i]) =>
                /\ Cardinality({k \in 1..Len(returned) : returned_from[k] = i}) = 1
                /\ \A k \in 1..Len(returned) :
                      returned_from[k] = i => returned[k].event_type = "mountain_building"

\* a simulate call made with such a boundary present, next to another boundary
C8_Witness ==
    /\ last.op = "simulate_geological_events"
    /\ \E i \in 1..Len(boundaries) : IsContinentalCollision(boundaries[i])
    /\ Len(boundaries) >= 2

\* C12: generate_plates never returns normally from a request for fewer than
\* one plate, and never leaves a cell assigned to a plate id that has no plate
\* object
C12_RejectsCountBelowOne ==
    last.op = "generate_plates" =>
        /\ last.arg >= 1
        /\ \A c \in DOMAIN plate_map : plate_map[c] \in DOMAIN plates

\* squared distance from a cell to a seed, toroidal on X and plain on Y
DistWrapX2(c, s) ==
    LET dx == Min2(Abs(c[1] - s[1]), width - Abs(c[1] - s[1]))
    IN dx * dx + (c[2] - s[2]) * (c[2] - s[2])
\* squared distance from a cell to a seed, toroidal on X and on Y
DistWrapXY2(c, s) ==
    LET dx == Min2(Abs(c[1] - s[1]), width - Abs(c[1] - s[1]))
        dy == Min2(Abs(c[2] - s[2]), height - Abs(c[2] - s[2]))
    IN dx * dx + dy * dy

BaseActivity(boundary_type) ==
    CASE boundary_type = "convergent" -> 8
      [] boundary_type = "divergent" -> 6
      [] OTHER -> 7
\* relative speed of the two plates of a boundary, thousandths of cm/year
RelativeSpeed(b) == ISqrt(RelSpeed2(plates[b.plate1_id], plates[b.plate2_id]))

\* C20 as stated: the activity of every detected boundary is
\* baseActivity(type) * min(1, relativeSpeed / 10), so it never exceeds the
\* base activity of its type and lies in [0, 1]
C20_ActivityBelowBase ==
    last.op = "detect_boundaries" =>
        \A i \in 1..Len(boundaries) :
            LET b == boundaries[i]
            IN /\ b.activity_level =
                     (BaseActivity(b.boundary_type) * Min2(1000, RelativeSpeed(b) \div 10)) \div 10
               /\ b.activity_level <= BaseActivity(b.boundary_type) * 100
               /\ InRange(b.activity_level, 0, 1000)

\* C20 amended: the activity of every detected boundary is
\* min(1, baseActivity(type) * relativeSpeed / 10): it lies in [0, 1] and
\* exceeds the base activity of its type when the relative speed is above 10
C20_ActivityCappedAtOne ==
    last.op = "detect_boundaries" =>
        \A i \in 1..Len(boundaries) :
            LET b == boundaries[i]
                raw == (BaseActivity(b.boundary_type) * RelativeSpeed(b)) \div 100
            IN /\ b.activity_level = IF raw > 1000 THEN 1000 ELSE raw
               /\ InRange(b.activity_level, 0, 1000)
               /\ RelativeSpeed(b) > 10000 =>
                     b.activity_level > BaseActivity(b.boundary_type) * 100

\* detect_boundaries has found a convergent boundary of relative speed 20 with
\* activity 1.0, above its base 0.8, next to a boundary of activity 0
C20_Witness ==
    /\ last.op = "detect_boundaries"
    /\ \E i, j \in 1..Len(boundaries) :
          /\ boundaries[i].boundary_type = "convergent"
          /\ RelativeSpeed(boundaries[i]) = 20000
          /\ boundaries[i].activity_level = 1000
          /\ boundaries[j].activity_level = 0

(***************************************************************************)
(* Claims on world generation                                              *)
(***************************************************************************)
\* C2: determinism: a second run built from the same width, height, seed and
\* options, with the same number of plates, ends with the same tile grid, the
\* same plate map and boundaries and the same geological-event sequence as
\* the first
C2_Determinism ==
    ( /\ first_run.done
      /\ pc = "done"
      /\ last.op = "simulate_geological_events"
      /\ first_run.num_plates = Cardinality(DOMAIN plates) )
    => /\ first_run.tiles = tiles
       /\ first_run.plate_map = plate_map
       /\ first_run.boundaries = boundaries
       /\ first_run.geological_events = geological_events

\* C3: once the pipeline has completed, through any number of simulate calls
\* on the generated tiles, is_water holds of a tile iff its altitude is below
\* the water threshold 0.35
C3_WaterFlagMatchesAltitude ==
    pc = "done" =>
        \A c \in DOMAIN tiles : tiles[c].is_water <=> tiles[c].altitude < 35

\* C5: in every state from generate_full_world on, through any number of
\* simulate calls, every tile has altitude, humidity and temperature in
\* [0,1], hostility and fertility_index in [0,10] and every quantity of its
\* resource map in [0,100]
C5_RangeInvariants ==
    \A c \in DOMAIN tiles :
        /\ InRange(tiles[c].altitude, 0, 100)
        /\ InRange(tiles[c].humidity, 0, 100)
        /\ InRange(tiles[c].temperature, 0, 100)
        /\ InRange(tiles[c].hostility, 0, 1000)
        /\ InRange(tiles[c].fertility_index, 0, 1000)
        /\ \A k \in DOMAIN tiles[c].resources : InRange(tiles[c].resources[k], 0, 10000)

\* a generated world where an event raised a tile to the cap 1.0, with a
\* resource at 100 and a rolled mineral
C5_Witness ==
    /\ pc = "done"
    /\ last.op = "simulate_geological_events"
    /\ \E c \in DOMAIN tiles : tiles[c].altitude = 100 /\ altitude_map[c] < 100
    /\ \E c \in DOMAIN tiles : \E k \in DOMAIN tiles[c].resources :
          tiles[c].resources[k] = 10000
    /\ \E c \in DOMAIN tiles : "gems" \in DOMAIN tiles[c].resources

\* C6: after generate_full_world every tile of the grid has a biome, and it
\* is a member of the biome catalog
C6_ClassificationTotality ==
    pc \in {"biomes", "done"} =>
        /\ DOMAIN tiles = Cells
        /\ \A c \in Cells : tiles[c].biome \in BiomeType

\* a generated world with water and land tiles and four biomes or more
C6_Witness ==
    /\ pc = "done"
    /\ \E c \in DOMAIN tiles : tiles[c].is_water
    /\ \E c \in DOMAIN tiles : ~tiles[c].is_water
    /\ Cardinality({tiles[c].biome : c \in DOMAIN tiles}) >= 4

Adjacent8(c, d) == c # d /\ Abs(c[1] - d[1]) <= 1 /\ Abs(c[2] - d[2]) <= 1
\* a tile with no in-bounds neighbour outside the path
DeadEnd(c, path) == \A d \in Cells : Adjacent8(c, d) => d \in PathSet(path)
WellFormedRiver(r) ==
    /\ \A i, j \in 1..Len(r.path) : i # j => r.path[i] # r.path[j]
    /\ \A i \in 1..(Len(r.path) - 1) : Adjacent8(r.path[i], r.path[i + 1])
    /\ Len(r.path) >= 20
    /\ r.start_altitude >= 60

\* C9 as stated: every committed river is a sequence of pairwise distinct
\* tiles, consecutive ones 8-adjacent, of length >= min_length, whose first
\* tile had altitude >= 0.6 when carved and whose last tile is a water tile or
\* a dead end
C9_RiverConnectivity ==
    \A i \in 1..Len(rivers) :
        LET r == rivers[i]
        IN /\ WellFormedRiver(r)
           /\ tiles[r.path[Len(r.path)]].is_water \/ DeadEnd(r.path[Len(r.path)], r.path)

\* C9 amended: as C9, but the last tile is a water tile, a dead end, or the
\* 500th tile of the walk (the step cap)
C9_RiverConnectivityOrCap ==
    \A i \in 1..Len(rivers) :
        LET r == rivers[i]
        IN /\ WellFormedRiver(r)
           /\ \/ tiles[r.path[Len(r.path)]].is_water
              \/ DeadEnd(r.path[Len(r.path)], r.path)
              \/ Len(r.path) = 500

\* a committed river that stopped at the step cap, on land, next to a tile it
\* had not visited
C9_Witness ==
    \E i \in 1..Len(rivers) :
        LET r == rivers[i]
        IN /\ Len(r.path) = 500
           /\ ~tiles[r.path[500]].is_water
           /\ ~DeadEnd(r.path[500], r.path)

\* the priority cascade, first matching rule wins
CascadeRules(a, t, h) ==
    << [ when |-> a < 35,
         then |-> IF a < 25 THEN "ocean_deep" ELSE "ocean_shallow" ],
       [ when |-> 35 <= a /\ a < 42 /\ h > 70,
         then |-> IF t > 70 THEN "mangrove" ELSE "coastal" ],
       [ when |-> a >= 65,
         then |-> IF a >= 85 THEN "mountain_peak"
                  ELSE IF a >= 75 THEN "mountain_high" ELSE "mountain_low" ],
       [ when |-> t < 40,
         then |-> IF t < 15 THEN "glacier" ELSE IF t < 25 THEN "tundra" ELSE "taiga" ],
       [ when |-> h < 20,
         then |-> IF t > 75 THEN "desert_hot"
                  ELSE IF t < 40 THEN "desert_cold" ELSE "steppe" ],
       [ when |-> t > 75,
         then |-> IF h > 85 THEN (IF a > 45 THEN "jungle" ELSE "tropical_rainforest")
                  ELSE IF h > 50 THEN "tropical_seasonal_forest" ELSE "savanna" ],
       [ when |-> 40 <= t /\ t <= 75,
         then |-> IF h > 85 THEN "swamp"
                  ELSE IF h > 80 THEN "temperate_rainforest"
                  ELSE IF h > 50 THEN "temperate_forest"
                  ELSE IF h > 30 THEN "grassland" ELSE "shrubland" ],
       [ when |-> TRUE, then |-> "shrubland" ] >>
Cascade(a, t, h) ==
    LET rules == CascadeRules(a, t, h)
        first == CHOOSE i \in 1..Len(rules) :
                     rules[i].when /\ \A j \in 1..(i - 1) : ~rules[j].when
    IN rules[first].then

\* C10: classify returns what the 8-rule first-match cascade gives, for every
\* (altitude, temperature, humidity) of the grid of values; classify(0.2, 0.5,
\* 0.5) is ocean_deep and classify(0.5, 0.9, 0.9) is jungle
C10_ClassifyIsCascade ==
    cls.biome # "none" =>
        /\ cls.biome = Cascade(cls.altitude, cls.temperature, cls.humidity)
        /\ (cls.altitude = 20 /\ cls.temperature = 50 /\ cls.humidity = 50)
              => cls.biome = "ocean_deep"
        /\ (cls.altitude = 50 /\ cls.temperature = 90 /\ cls.humidity = 90)
              => cls.biome = "jungle"

\* classify(0.46, 0.9, 0.9) has returned jungle, just above the 0.45 split
C10_Witness ==
    cls = [altitude |-> 46, temperature |-> 90, humidity |-> 90, biome |-> "jungle"]

\* C17: once the pipeline has run, through the simulate calls made on the
\* generated tiles, every tile's biome is what classify gives on the tile's
\* final altitude, temperature and humidity
C17_BiomeOfFinalAltitude ==
    pc = "done" =>
        \A c \in DOMAIN tiles :
            tiles[c].biome = classify(tiles[c].altitude, tiles[c].temperature,
                                      tiles[c].humidity)

\* the rise the k-th event of a returned list brings, from its type and the
\* boundary it comes from
EventRise(events, from, k) ==
    LET b == boundaries[from[k]]
        both_oceanic == /\ plates[b.plate1_id].plate_type = "oceanic"
                        /\ plates[b.plate2_id].plate_type = "oceanic"
    IN CASE events[k].event_type = "mountain_building" -> 10
         [] events[k].event_type = "volcano" ->
                IF b.boundary_type = "convergent"
                THEN (IF both_oceanic THEN 15 ELSE 12)
                ELSE 8
         [] OTHER -> 0
\* the tiles after the events k.. of a returned list, each replacing the
\* altitude of its tile by min(1.0, old + d)
RECURSIVE AfterEvents(_, _, _, _)
AfterEvents(tl, events, from, k) ==
    IF k > Len(events) THEN tl
    ELSE LET c == <<events[k].x, events[k].y>>
             d == EventRise(events, from, k)
         IN AfterEvents(
                IF c \in DOMAIN tl /\ d > 0
                THEN [tl EXCEPT ![c].altitude = IF @ + d > 100 THEN 100 ELSE @ + d]
                ELSE tl,
                events, from, k + 1)

\* C19: a simulate_geological_events call changes no tile field other than
\* altitude, and altitude only on the tiles of the volcano and
\* mountain_building events it returns, to min(1.0, old + d) with d = 0.15,
\* 0.10, 0.12 or 0.08 by the kind of event; earthquakes and skipped
\* boundaries change nothing, the other calls of the system change no tile,
\* and no altitude ever decreases
C19_AltitudeEffect ==
    [][ pc = "done" =>
          /\ last'.op = "simulate_geological_events" =>
                tiles' = AfterEvents(tiles, returned', returned_from', 1)
          /\ last'.op # "simulate_geological_events" => tiles' = tiles
          /\ DOMAIN tiles' = DOMAIN tiles
          /\ \A c \in DOMAIN tiles : tiles'[c].altitude >= tiles[c].altitude
      ]_vars

\* a simulate call on generated tiles has returned a volcano and an
\* earthquake, and the volcano's tile stands above its generated altitude
C19_Witness ==
    /\ pc = "done"
    /\ last.op = "simulate_geological_events"
    /\ \E k, m \in 1..Len(returned) :
          /\ returned[k].event_type = "volcano"
          /\ returned[m].event_type = "earthquake"
          /\ tiles[<<returned[k].x, returned[k].y>>].altitude
                 > altitude_map[<<returned[k].x, returned[k].y>>]
          /\ tiles[<<returned[m].x, returned[m].y>>].altitude
                 = altitude_map[<<returned[m].x, returned[m].y>>]

(***************************************************************************)
(* Claims on the World object                                              *)
(***************************************************************************)
\* C11: no World with a non-positive width or height is ever created, so no
\* generate or get_statistics runs on such a world
C11_NoNonPositiveWorld ==
    pc # "none" => width > 0 /\ height > 0

\* the in-bounds cells of the (2 * radius + 1)-square around (x, y), without
\* (x, y)
SquareAround(x, y, radius) ==
    {c \in Cells : Abs(c[1] - x) <= radius /\ Abs(c[2] - y) <= radius /\ c # <<x, y>>}

\* C13: on a generated world get_tile outside the grid returns None, inside
\* it the tile of that cell, and get_neighbors returns exactly the in-bounds
\* tiles of the square around (x, y) other than (x, y), each once; neither
\* raises and neither changes the world
C13_QueriesOutOfRange ==
    [][ (pc = "done" /\ query' # query /\ query'.op \in {"get_tile", "get_neighbors"}) =>
          /\ ~query'.raised
          /\ UNCHANGED <<width, height, tiles, worldVars>>
          /\ \A k \in 1..Len(query'.found) :
                query'.found[k].tile = tiles[query'.found[k].pos]
          /\ query'.op = "get_tile" =>
                IF <<query'.x, query'.y>> \in Cells
                THEN /\ ~query'.none
                     /\ Len(query'.found) = 1
                     /\ query'.found[1].pos = <<query'.x, query'.y>>
                ELSE query'.none /\ query'.found = << >>
          /\ query'.op = "get_neighbors" =>
                /\ {query'.found[k].pos : k \in 1..Len(query'.found)}
                      = SquareAround(query'.x, query'.y, query'.radius)
                /\ Len(query'.found)
                      = Cardinality(SquareAround(query'.x, query'.y, query'.radius))
      ]_vars

\* on a generated 3 x 3 world, get_neighbors around the corner outside the
\* grid, (-1, -1) with radius 2, has returned the 4 tiles in reach
C13_Witness ==
    /\ pc = "done"
    /\ query.op = "get_neighbors"
    /\ query.x = -1 /\ query.y = -1 /\ query.radius = 2
    /\ ~query.raised
    /\ Len(query.found) = 4

\* C14: get_statistics never faults on a zero denominator: with no land tile
\* the fertile and hostile percentages are 0, with no tile at all the water
\* percentage is 0
C14_ZeroDenominatorGivesZero ==
    query.op = "get_statistics" =>
        /\ ~query.raised
        /\ width * height - query.stats.water_tiles <= 0 =>
              query.stats.fertile_percentage = 0 /\ query.stats.hostile_percentage = 0
        /\ width * height = 0 => query.stats.water_percentage = 0

(***************************************************************************)
(* Claims on the climate system                                            *)
(***************************************************************************)
\* C15: the stored weather map has exactly the coordinates of the tile dict
\* passed to the most recent calculate_weather_patterns call, each mapped to
\* the pattern computed in that call; no entry of an earlier call survives
C15_WeatherOverwritten ==
    climate_call.weather_called =>
        /\ DOMAIN weather_patterns = DOMAIN climate_call.world_tiles
        /\ \A c \in DOMAIN climate_call.world_tiles :
              weather_patterns[c] =
                  WeatherPattern(c, climate_call.world_tiles[c], climate_call.season)

\* C16: in every state, each stored weather pattern is the pattern of its
\* tile under current_season, and each stored water cycle is derived from
\* that pattern
C16_MapsFollowSeason ==
    /\ \A c \in DOMAIN weather_patterns :
          weather_patterns[c] = WeatherPattern(c, ClimateTile(c), current_season)
    /\ \A c \in DOMAIN water_cycles :
          water_cycles[c] =
              WaterCycle(ClimateTile(c), WeatherPattern(c, ClimateTile(c), current_season))

(***************************************************************************)
(* Claims on the boundary type                                             *)
(***************************************************************************)
\* the heading atan2 gives for a drawn direction, the difference of two such
\* headings as the code takes it, and the angle between them (0..180)
HeadingOf(d) == NormHeading(d.direction)
RawDiff(d1, d2) == Abs(HeadingOf(d1) - HeadingOf(d2))
AngleBetween(d1, d2) ==
    IF RawDiff(d1, d2) > 180 THEN 360 - RawDiff(d1, d2) ELSE RawDiff(d1, d2)
\* squared relative speed by the law of cosines (thousandths, squared)
RelSpeed2Of(d1, d2) ==
    1000000 * (d1.speed * d1.speed + d2.speed * d2.speed)
      - 2000 * d1.speed * d2.speed * CosMilli(AngleBetween(d1, d2))
SlowerThan3(d1, d2) == RelSpeed2Of(d1, d2) < 9000000

\* C21 as stated: transform when the headings are within 30 degrees of
\* parallel or anti-parallel and the relative speed is below 3 cm/year;
\* otherwise divergent or convergent when the headings are within 90 degrees
\* of aligned; otherwise transform.
C21_FlatCascade ==
    btype.boundary_type # "none" =>
        LET a == AngleBetween(btype.d1, btype.d2)
        IN IF (a < 30 \/ a > 150) /\ SlowerThan3(btype.d1, btype.d2)
           THEN btype.boundary_type = "transform"
           ELSE IF a < 90
                THEN btype.boundary_type \in {"divergent", "convergent"}
                ELSE btype.boundary_type = "transform"

\* C21 amended: with the difference |a1 - a2| of the two atan2 headings
\* (each in (-180, 180]), the type is transform when the difference lies in
\* [30, 150] whatever the speed; when it is below 30 or above 150 the type is
\* transform at a relative speed below 3 cm/year, and otherwise divergent
\* below 30 and convergent above 150.
C21_NestedCascade ==
    btype.boundary_type # "none" =>
        LET raw == RawDiff(btype.d1, btype.d2)
        IN btype.boundary_type =
             CASE raw >= 30 /\ raw <= 150 -> "transform"
               [] (raw < 30 \/ raw > 150) /\ SlowerThan3(btype.d1, btype.d2) -> "transform"
               [] raw < 30 /\ ~SlowerThan3(btype.d1, btype.d2) -> "divergent"
               [] raw > 150 /\ ~SlowerThan3(btype.d1, btype.d2) -> "convergent"

\* two fast plates 40 degrees apart have been classified transform
C21_Witness ==
    /\ btype.boundary_type = "transform"
    /\ RawDiff(btype.d1, btype.d2) = 40
    /\ btype.d1.speed = 10 /\ btype.d2.speed = 10
    /\ ~SlowerThan3(btype.d1, btype.d2)

\* the draws d with the heading turned by r degrees
Rotated(d, r) == [d EXCEPT !.direction = (d.direction + r) % 360]
TypeOf(d1, d2) ==
    _determine_boundary_type(NewPlate(0, d1, EmptyMap), NewPlate(1, d2, EmptyMap))

\* C28: the boundary type is the same when the two plates are swapped and
\* when both headings are turned by the same angle.
C28_RelativeGeometryOnly ==
    btype.boundary_type # "none" =>
        /\ TypeOf(btype.d2, btype.d1) = btype.boundary_type
        /\ \A r \in TypeDirections :
               TypeOf(Rotated(btype.d1, r), Rotated(btype.d2, r)) = btype.boundary_type

(***************************************************************************)
(* Claims on the rivers and the derived tile fields                        *)
(***************************************************************************)
\* C22: along every committed river path each step goes to an 8-neighbour
\* whose altitude is not higher than the altitude of the tile it leaves.
C22_RiversFlowDownhill ==
    \A k \in 1..Len(rivers) :
        LET path == rivers[k].path
        IN \A i \in 1..(Len(path) - 1) :
               /\ Adjacent8(path[i], path[i + 1])
               /\ altitude_map[path[i + 1]] <= altitude_map[path[i]]

\* C25: after generate_full_world every tile's resources map has exactly the
\* keys of a freshly constructed Tile.
C25_FixedResourceKeys ==
    pc = "done" =>
        \A c \in DOMAIN tiles :
            DOMAIN tiles[c].resources = DOMAIN Tile(50, 50, 50).resources

(***************************************************************************)
(* Claims on the season cursor and the latitude                            *)
(***************************************************************************)
CursorInSeason ==
    /\ current_month \in 1..12
    /\ current_season =
          CASE current_month >= 3 /\ current_month <= 5 -> "spring"
            [] current_month >= 6 /\ current_month <= 8 -> "summer"
            [] current_month >= 9 /\ current_month <= 11 -> "autumn"
            [] OTHER -> "winter"

FromCentre(y) == Abs(2 * y - height)
\* the temperature calculate_weather_patterns computes on row y at an altitude
RowTemperature(y, altitude, season) ==
    _adjust_for_season(_calculate_temperature(Latitude(y), altitude), Latitude(y), season)

\* C24: the latitude of calculate_weather_patterns is measured from an equator
\* at the vertical centre: two rows equidistant from the centre get the same
\* latitude and, at equal altitude and season, the same temperature; the
\* centre row has latitude 0 and the top and bottom rows the largest.
C24_EquatorAtCentre ==
    climate_call.weather_called =>
        \A c1, c2 \in DOMAIN weather_patterns :
            /\ FromCentre(c1[2]) = FromCentre(c2[2]) =>
                  /\ Latitude(c1[2]) = Latitude(c2[2])
                  /\ RowTemperature(c1[2], 50, climate_call.season)
                        = RowTemperature(c2[2], 50, climate_call.season)
            /\ FromCentre(c1[2]) = 0 => Latitude(c1[2]) = 0
            /\ Latitude(c1[2]) <= Latitude(0)
            /\ Latitude(c1[2]) <= Latitude(height - 1)

\* C27: after generate_full_world every tile's hostility and fertility_index
\* are what calculate_hostility and calculate_fertility give on the tile's
\* final fields; a land tile flagged as river carries the river bonus.
C27_IndicesOfFinalState ==
    pc = "done" =>
        \A c \in DOMAIN tiles :
            /\ tiles[c].hostility = calculate_hostility(tiles[c]).hostility
            /\ tiles[c].fertility_index = calculate_fertility(tiles[c]).fertility_index

\* the flags of one tile: not both water and river, and a river tile has
\* river_flow 1.0 and water resource 100
RiverTileOK(t) ==
    /\ ~(t.is_water /\ t.is_river)
    /\ t.is_river => t.river_flow = 100 /\ t.resources["water"] = 10000
\* of the tiles of every committed path, the land tiles are flagged and the
\* water tiles are not
PathsMarked(tl, rs) ==
    \A k \in 1..Len(rs) : \A i \in 1..Len(rs[k].path) :
        tl[rs[k].path[i]].is_river = ~tl[rs[k].path[i]].is_water

\* C29: during and after generate_full_world no tile is both water and river,
\* the water tiles of a river path are not flagged, every river tile has
\* river_flow 1.0 and water resource 100 and keeps them through the later
\* stages, and carving a river over a flagged tile leaves the tile as it was.
C29_RiverFlags ==
    [][ /\ \A c \in DOMAIN tiles : RiverTileOK(tiles[c])
        /\ \A c \in DOMAIN tiles' : RiverTileOK(tiles'[c])
        /\ PathsMarked(tiles, rivers)
        /\ PathsMarked(tiles', rivers')
        /\ \A c \in DOMAIN tiles :
               tiles[c].is_river =>
                  /\ c \in DOMAIN tiles'
                  /\ tiles'[c].is_river
                  /\ tiles'[c].resources["water"] >= tiles[c].resources["water"]
                  /\ pc' = "tiles" => tiles'[c] = tiles[c] ]_vars

\* two rivers have been committed over a common tile, the second one ends on
\* a water tile, and the resources have been generated
C29_Witness ==
    /\ pc = "done"
    /\ Len(rivers) = 2
    /\ \E c \in PathSet(rivers[1].path) \cap PathSet(rivers[2].path) : tiles[c].is_river
    /\ \E c \in PathSet(rivers[2].path) : tiles[c].is_water /\ ~tiles[c].is_river

(***************************************************************************)
(* Claims on the desert rule of the classifier                             *)
(***************************************************************************)
\* the call gets past the water, coast and mountain rules
ReachesGlacialRule ==
    /\ cls.altitude >= 35
    /\ cls.altitude < 65
    /\ ~(cls.altitude < 42 /\ cls.humidity > 70)

\* C30: classify never returns desert_cold: a call with temperature < 0.40
\* that reaches the glacial rule gives glacier, tundra or taiga, and a call
\* with humidity < 0.2 that reaches the desert rule gives desert_hot or steppe.
C30_DesertColdUnreachable ==
    cls.biome # "none" =>
        /\ cls.biome # "desert_cold"
        /\ (ReachesGlacialRule /\ cls.temperature < 40) =>
               cls.biome \in {"glacier", "tundra", "taiga"}
        /\ (ReachesGlacialRule /\ cls.temperature >= 40 /\ cls.humidity < 20) =>
               cls.biome \in {"desert_hot", "steppe"}

\* a dry, cold call below the mountains has been classified
C30_Witness ==
    /\ cls.biome \in {"glacier", "tundra", "taiga"}
    /\ ReachesGlacialRule
    /\ cls.temperature < 40
    /\ cls.humidity < 20
====
